---- MODULE Spec2Model ----
(***************************************************************************)
(* Model of the pyworkflow step executors (protocol/executor.py) and of    *)
(* the project scheduler (project/project.py).                             *)
(*                                                                         *)
(* The specifications of the module:                                       *)
(*   SpecExecutor : StepExecutor.runSteps / ThreadStepExecutor.runSteps    *)
(*                  with the StepThread workers;                           *)
(*   SpecProject  : the Project operations on protocols (save, delete,     *)
(*                  launch, schedule, stop, reset, continue, getRuns);     *)
(*   SpecWorkflow : _getWorkflowFromProtocol and launchWorkflow;           *)
(*   SpecExchange : exportProtocols and loadProtocols;                     *)
(*   SpecGpu      : the GPUs given to the nodes of a ThreadStepExecutor;   *)
(*   SpecQueue    : QueueStepExecutor.runJob;                              *)
(*   SpecMpi      : MPIStepExecutor.runSteps and the slaves of             *)
(*                  utils/mpi.py (SpecMpiFair: with fair scheduling).      *)
(***************************************************************************)
EXTENDS Integers, Sequences, FiniteSets, TLC

(***************************************************************************)
(* Status values (pyworkflow.protocol.constants, shared by protocols and   *)
(* steps).                                                                 *)
(***************************************************************************)
STATUS_NEW == "new"
STATUS_SAVED == "saved"
STATUS_SCHEDULED == "scheduled"
STATUS_LAUNCHED == "launched"
STATUS_RUNNING == "running"
STATUS_FINISHED == "finished"
STATUS_FAILED == "failed"
STATUS_ABORTED == "aborted"
STATUS_INTERACTIVE == "interactive"
STATUS_WAITING == "waiting"

ACTIVE_STATUS ==
  {STATUS_LAUNCHED, STATUS_RUNNING, STATUS_SCHEDULED, STATUS_INTERACTIVE,
   STATUS_WAITING}

(***************************************************************************)
(* Bounds.                                                                 *)
(***************************************************************************)
MaxSteps == 3
MaxAdded == 1
MaxThreads == 2
MaxProt == 3
MaxOps == 2

VARIABLES
  \* ---- step executor ----
  executor,       \* "serial" (StepExecutor) or "thread" (ThreadStepExecutor)
  numberOfProcs,  \* ThreadStepExecutor.numberOfProcs
  steps,          \* the step list: sequence of [status, prerequisites]
  pc,             \* position of the main loop of runSteps
  runningSteps,   \* insertion-ordered dict {node: step}, as a sequence of pairs
  freeNodes,      \* list of available nodes
  nodesFinished,  \* list computed by the scan, consumed by the notify loop
  doContinue,     \* last value returned by stepFinishedCallback
  current,        \* serial executor: the step inside step.run() (0: none)
  threads,        \* live StepThreads, as a set of <<thId, step>>
  nStarted,       \* per step: how often stepStartedCallback fired
  nFinished,      \* per step: how often stepFinishedCallback fired
  \* ---- project ----
  readOnly,       \* Project.openedAsReadOnly()
  inputs,         \* per protocol: the protocols its input pointers point to
  status,         \* per protocol: status of the in-memory protocol object
  runMode,        \* per protocol: protocol.runMode
  prerequisites,  \* per protocol: protocol.getPrerequisites()
  mapper,         \* project.sqlite: per protocol the stored status, or NoObj
  relations,      \* project.sqlite: protocols owning relation rows
  outputs,        \* protocols whose outputs are present
  workingDirSet,  \* protocols whose workingDir attribute was assigned
  workDir,        \* per protocol: its working directory on disk
  localStore,     \* per protocol: status held by its own run.db, or NoObj
  proc,           \* per protocol: the external process attached to it
  runs,           \* Project.runs: [loaded, ids]
  runsGraph,      \* Project._runsGraph: [built, nodes]
  deleted,        \* protocols removed by deleteProtocol
  lastOp,         \* the last Project call: operation, arguments, outcome
  nOps,           \* number of Project calls made
  \* ---- GPU assignment of ThreadStepExecutor ----
  nThreads,       \* the nThreads argument of the constructor
  gpuListArg,     \* the GPU list given to the constructor (kwargs)
  gpuList,        \* self.gpuList
  gpuDict,        \* self.gpuDict: {node: list of GPUs}
  gpuBuilt,       \* the constructor has run
  gpuGot,         \* the last getGpuList() call: [thId, gpus]
  \* ---- QueueStepExecutor.runJob ----
  qpc,            \* position inside runJob
  jobid,          \* value returned by _submit
  jobDoneRegex,   \* hostConfig.getJobDoneRegex(): None or the outputs matched
  out,            \* output of the last check command
  wait,           \* the local variable wait
  slept,          \* seconds of the last time.sleep(wait)
  nPolls,         \* number of _checkJobStatus calls made
  \* ---- MPIStepExecutor and the MPI slaves ----
  mpiCompiles,    \* the interpreter accepts the syntax of utils/mpi.py
  mpiPc,          \* position inside MPIStepExecutor.runSteps
  mpiNode,        \* loop variable of the sentinel loop
  comm,           \* per rank: messages sent by rank 0 and not yet received
  results,        \* per rank: results sent back to rank 0
  slave,          \* per rank: position of runJobMPISlave
  sent,           \* per rank: number of 'None' messages sent
  \* ---- workflow export and import ----
  file,           \* the JSON file: list of protocol dicts
  exportList,     \* the protocols given to exportProtocols
  exportResult,   \* outcome of the exportProtocols call
  target,         \* the project loadProtocols is called on
  \* ---- update of a run from its own store ----
  protObj,        \* the protocol object of the run held by the project
  sqlite,         \* the row of the run in project.sqlite
  runDb,          \* the run.db of the run: [status, pid, time]
  pidAlive,       \* pwutils.isProcessAlive(pid) of the run's process
  asReadOnly,     \* Project.openedAsReadOnly() of the project of the run
  runsCached,     \* Project.runs of that project is not None
  updCall,        \* the last call on the run: arguments and outcome
  \* ---- runs graph and copy of a list of runs ----
  argRuns,        \* the list of runs given to the call
  parentOf,       \* per run: the run it is a child of (0: none)
  ins,            \* per run: its input attributes, each a list of pointers
  dag,            \* the graph getGraphFromRuns returned
  clones          \* the clones copyProtocol made: per run copied, its clone

execVars ==
  <<executor, numberOfProcs, steps, pc, runningSteps, freeNodes,
    nodesFinished, doContinue, current, threads, nStarted, nFinished>>

projVars ==
  <<readOnly, inputs, status, runMode, prerequisites, mapper, relations,
    outputs, workingDirSet, workDir, localStore, proc, runs, runsGraph,
    deleted, lastOp, nOps>>

gpuVars == <<nThreads, gpuListArg, gpuList, gpuDict, gpuBuilt, gpuGot>>

queueVars == <<qpc, jobid, jobDoneRegex, out, wait, slept, nPolls>>

mpiVars == <<mpiCompiles, mpiPc, mpiNode, comm, results, slave, sent>>

xferVars == <<file, exportList, exportResult, target>>

viewVars ==
  <<protObj, sqlite, runDb, pidAlive, asReadOnly, runsCached, updCall>>

graphVars == <<argRuns, parentOf, ins, dag, clones>>

jobVars == <<gpuVars, queueVars, mpiVars, xferVars, viewVars, graphVars>>

vars == <<execVars, projVars, jobVars>>

(***************************************************************************)
(* Helpers on sequences.                                                   *)
(***************************************************************************)
Min(a, b) == IF a < b THEN a ELSE b

Range(s) == {s[i] : i \in DOMAIN s}

\* The increasing sequence of the elements of a finite set of integers.
RECURSIVE SortedSeq(_)
SortedSeq(S) ==
  IF S = {} THEN <<>>
  ELSE LET m == CHOOSE x \in S : \A y \in S : x <= y
       IN <<m>> \o SortedSeq(S \ {m})

(***************************************************************************)
(* Step predicates.                                                        *)
(***************************************************************************)
isFinished(s) == s.status = STATUS_FINISHED
isRunning(s) == s.status = STATUS_RUNNING
isWaiting(s) == s.status = STATUS_WAITING

\* Mutation of getRunnable: the prerequisites are not looked at.
getRunnableNoPrereq(ss, n) ==
  LET ready == {i \in DOMAIN ss : ss[i].status = STATUS_NEW}
      rs == SortedSeq(ready)
  IN SubSeq(rs, 1, Min(n, Len(rs)))

\* StepExecutor._getRunnable: the first n steps (list order) that are NEW and
\* whose prerequisites (1-based indices) are all FINISHED.
getRunnable(ss, n) ==
  LET ready == {i \in DOMAIN ss :
                  /\ ss[i].status = STATUS_NEW
                  /\ \A j \in ss[i].prerequisites : isFinished(ss[j])}
      rs == SortedSeq(ready)
  IN SubSeq(rs, 1, Min(n, Len(rs)))

\* StepExecutor._arePending
arePending(ss) == \E i \in DOMAIN ss : isRunning(ss[i]) \/ isWaiting(ss[i])

setStatus(ss, i, st) == [ss EXCEPT ![i].status = st]

(***************************************************************************)
(* Initial state of a runSteps call: every step NEW, prerequisites among   *)
(* the earlier steps (a protocol inserts a step after its prerequisites).  *)
(***************************************************************************)
StepLists ==
  {ss \in [1..MaxSteps -> [status : {STATUS_NEW},
                           prerequisites : SUBSET (1..MaxSteps)]] :
     \A i \in 1..MaxSteps : \A j \in ss[i].prerequisites : j < i}

\* No ThreadStepExecutor under construction, no runJob call, no MPI run.
IdleGpu ==
  /\ nThreads = 1
  /\ gpuListArg = <<>>
  /\ gpuList = <<>>
  /\ gpuDict = <<>>
  /\ gpuBuilt = FALSE
  /\ gpuGot = [thId |-> -1, gpus |-> <<>>]

IdleQueue ==
  /\ qpc = "none"
  /\ jobid = "none"
  /\ jobDoneRegex = [isNone |-> TRUE, matches |-> {}]
  /\ out = ""
  /\ wait = 0
  /\ slept = 0
  /\ nPolls = 0

IdleMpi ==
  /\ mpiCompiles = TRUE
  /\ mpiPc = "none"
  /\ mpiNode = 0
  /\ comm = <<>>
  /\ results = <<>>
  /\ slave = <<>>
  /\ sent = <<>>

\* The protocol object of a project without runs under update.
NoRun ==
  [status |-> STATUS_NEW, message |-> "", pid |-> 0, lastUpdate |-> 0,
   local |-> TRUE, queue |-> FALSE, child |-> FALSE]

NoCall == [op |-> "none", tick |-> 0]

\* No workflow file written or read.
IdleXfer ==
  /\ file = <<>>
  /\ exportList = <<>>
  /\ exportResult = "none"
  /\ target = [last |-> 0, loaded |-> FALSE, newDict |-> <<>>,
               prots |-> <<>>]

\* No run under update.
IdleView ==
  /\ protObj = NoRun
  /\ sqlite = NoRun
  /\ runDb = [status |-> STATUS_NEW, pid |-> 0, time |-> 0]
  /\ pidAlive = FALSE
  /\ asReadOnly = FALSE
  /\ runsCached = FALSE
  /\ updCall = NoCall

\* No graph built, no list copied.
NoGraph ==
  [built |-> FALSE, nodes |-> {}, edges |-> {}, rootChilds |-> {}]

NoClones == [made |-> FALSE, of |-> <<>>]

IdleGraph ==
  /\ argRuns = <<>>
  /\ parentOf = <<>>
  /\ ins = <<>>
  /\ dag = NoGraph
  /\ clones = NoClones

IdleJobs ==
  IdleGpu /\ IdleQueue /\ IdleMpi /\ IdleXfer /\ IdleView /\ IdleGraph

\* No project is open.
IdleProject ==
  /\ inputs = [p \in {} |-> {}]
  /\ readOnly = FALSE
  /\ status = <<>>
  /\ runMode = <<>>
  /\ prerequisites = <<>>
  /\ mapper = <<>>
  /\ relations = {}
  /\ outputs = {}
  /\ workingDirSet = {}
  /\ workDir = <<>>
  /\ localStore = <<>>
  /\ proc = <<>>
  /\ runs = [loaded |-> FALSE, ids |-> {}]
  /\ runsGraph = [built |-> FALSE, nodes |-> {}]
  /\ deleted = {}
  /\ lastOp = [op |-> "none", protocols |-> {}, from |-> "-", result |-> "ok",
               called |-> "none"]
  /\ nOps = 0

InitRunSteps ==
  /\ executor \in {"serial", "thread"}
  /\ numberOfProcs \in 1..MaxThreads
  /\ executor = "serial" => numberOfProcs = 1
  /\ steps \in StepLists
  /\ pc = IF executor = "serial" THEN "loop" ELSE "scan"
  /\ runningSteps = <<>>
  /\ freeNodes = [i \in 1..numberOfProcs |-> i - 1]
  /\ nodesFinished = <<>>
  /\ doContinue = TRUE
  /\ current = 0
  /\ threads = {}
  /\ nStarted = [i \in 1..MaxSteps |-> 0]
  /\ nFinished = [i \in 1..MaxSteps |-> 0]
  /\ IdleProject

InitExecutor == InitRunSteps /\ IdleJobs

(***************************************************************************)
(* StepExecutor.runSteps (serial).                                         *)
(***************************************************************************)
\* One pass of the while loop up to the call of step.run(): a runnable step
\* is set RUNNING and stepStartedCallback fires; with nothing runnable the
\* loop sleeps (pending steps) or breaks.
SerialLoop ==
  /\ executor = "serial"
  /\ pc = "loop"
  /\ LET runnableSteps == getRunnable(steps, 1)
     IN IF runnableSteps # <<>>
        THEN LET step == runnableSteps[1]
             IN /\ steps' = setStatus(steps, step, STATUS_RUNNING)
                /\ nStarted' = [nStarted EXCEPT ![step] = @ + 1]
                /\ current' = step
                /\ pc' = "run"
        ELSE /\ pc' = IF arePending(steps) THEN "check" ELSE "final"
             /\ UNCHANGED <<steps, nStarted, current>>
  /\ UNCHANGED <<projVars, jobVars>>
  /\ UNCHANGED <<executor, numberOfProcs, runningSteps, freeNodes,
                 nodesFinished, doContinue, threads, nFinished>>

\* Mutation of SerialRun: runSteps returns at once when stepFinishedCallback
\* answers false.
SerialRunReturns ==
  /\ executor = "serial"
  /\ pc = "run"
  /\ \E st \in {STATUS_FINISHED, STATUS_FAILED}, cont \in BOOLEAN :
       /\ steps' = setStatus(steps, current, st)
       /\ nFinished' = [nFinished EXCEPT ![current] = @ + 1]
       /\ doContinue' = cont
       /\ pc' = IF cont THEN "check" ELSE "done"
  /\ current' = 0
  /\ UNCHANGED <<projVars, jobVars>>
  /\ UNCHANGED <<executor, numberOfProcs, runningSteps, freeNodes,
                 nodesFinished, threads, nStarted>>

\* step.run() returns (the step ends FINISHED, or FAILED when its code
\* raised) and stepFinishedCallback answers whether to go on.
SerialRun ==
  /\ executor = "serial"
  /\ pc = "run"
  /\ \E st \in {STATUS_FINISHED, STATUS_FAILED}, cont \in BOOLEAN :
       /\ steps' = setStatus(steps, current, st)
       /\ nFinished' = [nFinished EXCEPT ![current] = @ + 1]
       /\ doContinue' = cont
       /\ pc' = IF cont THEN "check" ELSE "final"
  /\ current' = 0
  /\ UNCHANGED <<projVars, jobVars>>
  /\ UNCHANGED <<executor, numberOfProcs, runningSteps, freeNodes,
                 nodesFinished, threads, nStarted>>

(***************************************************************************)
(* ThreadStepExecutor.runSteps.                                            *)
(***************************************************************************)
\* with sharedLock: nodesFinished = nodes whose step is no longer running.
Scan ==
  /\ executor = "thread"
  /\ pc = "scan"
  /\ nodesFinished' =
       LET done == SelectSeq(runningSteps,
                             LAMBDA e : ~isRunning(steps[e[2]]))
       IN [k \in 1..Len(done) |-> done[k][1]]
  /\ doContinue' = TRUE
  /\ pc' = "notify"
  /\ UNCHANGED <<projVars, jobVars>>
  /\ UNCHANGED <<executor, numberOfProcs, steps, runningSteps, freeNodes,
                 current, threads, nStarted, nFinished>>

\* Mutation of Notify: the answer of stepFinishedCallback is stored and the
\* loop goes on whatever it is.
NotifyGoesOn ==
  /\ executor = "thread"
  /\ pc = "notify"
  /\ nodesFinished # <<>>
  /\ LET node == Head(nodesFinished)
         entry == CHOOSE e \in Range(runningSteps) : e[1] = node
         step == entry[2]
     IN /\ runningSteps' = SelectSeq(runningSteps, LAMBDA e : e[1] # node)
        /\ freeNodes' = Append(freeNodes, node)
        /\ nFinished' = [nFinished EXCEPT ![step] = @ + 1]
        /\ \E cont \in BOOLEAN :
             /\ doContinue' = cont
             /\ pc' = "notify"
  /\ nodesFinished' = Tail(nodesFinished)
  /\ UNCHANGED <<projVars, jobVars>>
  /\ UNCHANGED <<executor, numberOfProcs, steps, current, threads, nStarted>>

\* One pass of "for node in nodesFinished": pop the node from runningSteps,
\* give it back to freeNodes, fire stepFinishedCallback; false breaks out of
\* the while loop.
Notify ==
  /\ executor = "thread"
  /\ pc = "notify"
  /\ nodesFinished # <<>>
  /\ LET node == Head(nodesFinished)
         entry == CHOOSE e \in Range(runningSteps) : e[1] = node
         step == entry[2]
     IN /\ runningSteps' = SelectSeq(runningSteps, LAMBDA e : e[1] # node)
        /\ freeNodes' = Append(freeNodes, node)
        /\ nFinished' = [nFinished EXCEPT ![step] = @ + 1]
        /\ \E cont \in BOOLEAN :
             /\ doContinue' = cont
             /\ pc' = IF cont THEN "notify" ELSE "final"
  /\ nodesFinished' = Tail(nodesFinished)
  /\ UNCHANGED <<projVars, jobVars>>
  /\ UNCHANGED <<executor, numberOfProcs, steps, current, threads, nStarted>>

\* Mutation of Launch: the node given to a step stays in freeNodes.
LaunchKeepsNode ==
  /\ executor = "thread"
  /\ pc = "notify"
  /\ nodesFinished = <<>>
  /\ LET runnableSteps ==
           IF freeNodes # <<>> THEN getRunnable(steps, Len(freeNodes))
           ELSE <<>>
         k == Len(runnableSteps)
         n == Len(freeNodes)
         nodeOf(j) == freeNodes[n - j + 1]
         launched == Range(runnableSteps)
         newSteps == [i \in DOMAIN steps |->
                        IF i \in launched
                        THEN [steps[i] EXCEPT !.status = STATUS_RUNNING]
                        ELSE steps[i]]
         anyLaunched == k > 0
         anyPending == arePending(newSteps)
     IN /\ steps' = newSteps
        /\ nStarted' = [i \in DOMAIN nStarted |->
                          IF i \in launched THEN nStarted[i] + 1
                          ELSE nStarted[i]]
        /\ freeNodes' = freeNodes
        /\ runningSteps' =
             runningSteps \o [j \in 1..k |-> <<nodeOf(j), runnableSteps[j]>>]
        /\ threads' =
             threads \cup {<<nodeOf(j), runnableSteps[j]>> : j \in 1..k}
        /\ pc' = IF anyLaunched \/ anyPending THEN "check" ELSE "final"
  /\ UNCHANGED <<projVars, jobVars>>
  /\ UNCHANGED <<executor, numberOfProcs, nodesFinished, doContinue, current,
                 nFinished>>

\* with sharedLock: take up to len(freeNodes) runnable steps; each is set
\* RUNNING, stepStartedCallback fires, a free node is popped (from the end of
\* the list) and a StepThread is started; then anyPending is read.  Without
\* a launch the loop sleeps when steps are pending and breaks otherwise.
Launch ==
  /\ executor = "thread"
  /\ pc = "notify"
  /\ nodesFinished = <<>>
  /\ LET runnableSteps ==
           IF freeNodes # <<>> THEN getRunnable(steps, Len(freeNodes))
           ELSE <<>>
         k == Len(runnableSteps)
         n == Len(freeNodes)
         nodeOf(j) == freeNodes[n - j + 1]
         launched == Range(runnableSteps)
         newSteps == [i \in DOMAIN steps |->
                        IF i \in launched
                        THEN [steps[i] EXCEPT !.status = STATUS_RUNNING]
                        ELSE steps[i]]
         anyLaunched == k > 0
         anyPending == arePending(newSteps)
     IN /\ steps' = newSteps
        /\ nStarted' = [i \in DOMAIN nStarted |->
                          IF i \in launched THEN nStarted[i] + 1
                          ELSE nStarted[i]]
        /\ freeNodes' = SubSeq(freeNodes, 1, n - k)
        /\ runningSteps' =
             runningSteps \o [j \in 1..k |-> <<nodeOf(j), runnableSteps[j]>>]
        /\ threads' =
             threads \cup {<<nodeOf(j), runnableSteps[j]>> : j \in 1..k}
        /\ pc' = IF anyLaunched \/ anyPending THEN "check" ELSE "final"
  /\ UNCHANGED <<projVars, jobVars>>
  /\ UNCHANGED <<executor, numberOfProcs, nodesFinished, doContinue, current,
                 nFinished>>

\* StepThread.run: step._run() has returned or raised; with the lock held
\* the step is set FINISHED or FAILED and the thread ends.
StepThreadRun ==
  \E t \in threads, st \in {STATUS_FINISHED, STATUS_FAILED} :
    /\ steps' = setStatus(steps, t[2], st)
    /\ threads' = threads \ {t}
    /\ UNCHANGED <<projVars, jobVars>>
  /\ UNCHANGED <<executor, numberOfProcs, pc, runningSteps, freeNodes,
                   nodesFinished, doContinue, current, nStarted, nFinished>>

(***************************************************************************)
(* Common tail of both loops.                                              *)
(***************************************************************************)
\* The steps a stepsCheckCallback call may append to the list given to
\* runSteps (a protocol in streaming inserts new steps there): none, or one
\* NEW step with at most one prerequisite among the steps of the list.
StepsToAdd ==
  {<<>>} \cup
  IF Len(steps) < MaxSteps + MaxAdded
  THEN {<<[status |-> STATUS_NEW, prerequisites |-> pre]>> :
          pre \in {{}} \cup {{j} : j \in 1..Len(steps)}}
  ELSE {}

\* stepsCheckCallback(): the list grows by the steps the callback appends.
stepsCheckCallback(new) ==
  /\ steps' = steps \o new
  /\ nStarted' = nStarted \o [k \in 1..Len(new) |-> 0]
  /\ nFinished' = nFinished \o [k \in 1..Len(new) |-> 0]

\* End of a pass: stepsCheckCallback when stepsCheckSecs have elapsed, then
\* the next pass.
StepsCheck ==
  /\ pc = "check"
  /\ pc' = IF executor = "serial" THEN "loop" ELSE "scan"
  /\ \E new \in StepsToAdd : stepsCheckCallback(new)
  /\ UNCHANGED <<projVars, jobVars>>
  /\ UNCHANGED <<executor, numberOfProcs, runningSteps, freeNodes,
                 nodesFinished, doContinue, current, threads>>

\* After the loop: the last stepsCheckCallback.
FinalCheck ==
  /\ pc = "final"
  /\ pc' = IF executor = "serial" THEN "done" ELSE "join"
  /\ \E new \in StepsToAdd : stepsCheckCallback(new)
  /\ UNCHANGED <<projVars, jobVars>>
  /\ UNCHANGED <<executor, numberOfProcs, runningSteps, freeNodes,
                 nodesFinished, doContinue, current, threads>>

\* "for t in threading.enumerate(): t.join()": returns when no StepThread
\* is alive.
Join ==
  /\ pc = "join"
  /\ threads = {}
  /\ pc' = "done"
  /\ UNCHANGED <<projVars, jobVars>>
  /\ UNCHANGED <<executor, numberOfProcs, steps, runningSteps, freeNodes,
                 nodesFinished, doContinue, current, threads, nStarted,
                 nFinished>>

NextExecutor ==
  \/ SerialLoop
  \/ SerialRun
  \/ Scan
  \/ Notify
  \/ Launch
  \/ StepThreadRun
  \/ StepsCheck
  \/ FinalCheck
  \/ Join

SpecExecutor == InitExecutor /\ [][NextExecutor]_vars

\* The thread that called runSteps is not held up once it has left the
\* loop: the last stepsCheckCallback returns, and the joins return when no
\* StepThread is alive.
SpecExecutorFair ==
  /\ SpecExecutor
  /\ WF_vars(FinalCheck)
  /\ WF_vars(Join)

(***************************************************************************)
(* Project: values.                                                        *)
(***************************************************************************)
Prots == 1..MaxProt

Status ==
  {STATUS_NEW, STATUS_SAVED, STATUS_SCHEDULED, STATUS_LAUNCHED,
   STATUS_RUNNING, STATUS_FINISHED, STATUS_FAILED, STATUS_ABORTED,
   STATUS_INTERACTIVE, STATUS_WAITING}

MODE_RESUME == "resume"
MODE_RESTART == "restart"

\* No row for the object in a store.
NoObj == "none"

\* Outcomes of a Project call.
OK == "ok"
ModificationNotAllowed == "ModificationNotAllowedException"
ReadOnlyError == "Exception: Running in READ-ONLY mode"
StopError == "Exception raised by stop"

\* The input pointers of the protocols: a chain 1 -> 2 -> 3 ..., each
\* protocol taking its input from an output of the one before.
ChainInputs == [p \in Prots |-> IF p = 1 THEN {} ELSE {p - 1}]
InputGraphs == {ChainInputs}

\* The project state as one record, for the operations below.
Cur ==
  [readOnly |-> readOnly, status |-> status, runMode |-> runMode,
   prerequisites |-> prerequisites, mapper |-> mapper,
   relations |-> relations, outputs |-> outputs,
   workingDirSet |-> workingDirSet, workDir |-> workDir,
   localStore |-> localStore, proc |-> proc, runs |-> runs,
   runsGraph |-> runsGraph, deleted |-> deleted]

Apply(s) ==
  /\ readOnly' = s.readOnly
  /\ status' = s.status
  /\ runMode' = s.runMode
  /\ prerequisites' = s.prerequisites
  /\ mapper' = s.mapper
  /\ relations' = s.relations
  /\ outputs' = s.outputs
  /\ workingDirSet' = s.workingDirSet
  /\ workDir' = s.workDir
  /\ localStore' = s.localStore
  /\ proc' = s.proc
  /\ runs' = s.runs
  /\ runsGraph' = s.runsGraph
  /\ deleted' = s.deleted
  /\ UNCHANGED inputs

(***************************************************************************)
(* Project: helpers of the operations.                                     *)
(***************************************************************************)
openedAsReadOnly(s) == s.readOnly

hasObjId(s, p) == s.mapper[p] # NoObj

\* self.mapper.store(protocol); self.mapper.commit()
mapperStore(s, p) == [s EXCEPT !.mapper[p] = s.status[p]]

\* Project._storeProtocol
storeProtocol(s, p) ==
  IF ~openedAsReadOnly(s) THEN mapperStore(s, p) ELSE s

\* Project._setupProtocol: store, assign the working directory, store again.
setupProtocol(s, p) ==
  IF ~openedAsReadOnly(s)
  THEN LET s1 == storeProtocol(s, p)
           s2 == [s1 EXCEPT !.workingDirSet = @ \cup {p}]
       IN storeProtocol(s2, p)
  ELSE s

\* protocol.makePathsAndClean(): the working directory exists and is empty.
makePathsAndClean(s, p) == [s EXCEPT !.workDir[p] = "clean"]

\* pwutils.path.copyFile(self.dbPath, protocol.getDbPath()): the run.db of the
\* protocol becomes a copy of project.sqlite.
copyDb(s, p) == [s EXCEPT !.localStore[p] = s.mapper[p]]

setStatusOf(s, p, st) == [s EXCEPT !.status[p] = st]

\* Project._updateProtocol: nothing on a read-only project; otherwise the
\* protocol is rehydrated from its own run.db and stored, or marked FAILED
\* and stored when the run.db cannot be read.
updateProtocol(s, p) ==
  IF openedAsReadOnly(s) THEN s
  ELSE IF s.localStore[p] = NoObj
       THEN mapperStore(setStatusOf(s, p, STATUS_FAILED), p)
       ELSE mapperStore(setStatusOf(s, p, s.localStore[p]), p)

RECURSIVE updateAll(_, _)
updateAll(s, ps) ==
  IF ps = {} THEN s
  ELSE LET p == CHOOSE x \in ps : TRUE
       IN updateAll(updateProtocol(s, p), ps \ {p})

\* Project.getRuns: with no cached runs, or on refresh, the runs are read
\* from the mapper, the cached graph is invalidated and every active run is
\* updated.
getRuns(s, refresh) ==
  IF ~s.runs.loaded \/ refresh
  THEN LET ids == {p \in Prots : s.mapper[p] # NoObj}
           s1 == [s EXCEPT !.runs = [loaded |-> TRUE, ids |-> ids],
                           !.runsGraph = [built |-> FALSE, nodes |-> {}]]
       IN updateAll(s1, {p \in ids : s1.status[p] \in ACTIVE_STATUS})
  ELSE s

\* Project.getRunsGraph: the cached graph unless refresh is asked or no graph
\* is cached; the graph has a node per run and an edge a -> b when an input
\* pointer of b points to a.
getRunsGraph(s, refresh) ==
  IF refresh \/ ~s.runsGraph.built
  THEN LET s1 == getRuns(s, refresh)
       IN [s1 EXCEPT !.runsGraph = [built |-> TRUE, nodes |-> s1.runs.ids]]
  ELSE s

\* node.getChilds() in a runs graph with the given nodes.
getChilds(nodes, p) ==
  IF p \in nodes THEN {c \in nodes : p \in inputs[c] /\ c # p} ELSE {}

\* Project.__validDependency
validDependency(s, child, protocols) ==
  /\ child \notin protocols
  /\ s.status[child] # STATUS_SAVED
  /\ s.status[child] # STATUS_SCHEDULED

\* The nodes reached from p along child edges in at most n steps, p itself
\* left aside unless an edge leads back to it.
RECURSIVE Descendants(_, _, _)
Descendants(nodes, p, n) ==
  IF n = 0 THEN {}
  ELSE LET near == Descendants(nodes, p, n - 1)
       IN getChilds(nodes, p) \cup UNION {getChilds(nodes, q) : q \in near}

\* Mutation of getProtocolsDependencies: every descendant of a protocol is
\* looked at, not only its children.
getProtocolsDependenciesDeep(s, protocols) ==
  {d \in Prots \X Prots :
     /\ d[1] \in protocols
     /\ d[2] \in Descendants(s.runsGraph.nodes, d[1], MaxProt)
     /\ validDependency(s, d[2], protocols)}

\* Project._getProtocolsDependencies, on the graph held by s: the pairs
\* <<protocol, child>> that make up the error text.
getProtocolsDependencies(s, protocols) ==
  {d \in Prots \X Prots :
     /\ d[1] \in protocols
     /\ d[2] \in getChilds(s.runsGraph.nodes, d[1])
     /\ validDependency(s, d[2], protocols)}

\* Project._checkModificationAllowed: the error raised (OK: none) and the
\* state left by the getRunsGraph() call made on the way.
checkModificationAllowed(s, protocols) ==
  IF openedAsReadOnly(s) THEN [s |-> s, err |-> ReadOnlyError]
  ELSE LET s1 == getRunsGraph(s, FALSE)
       IN [s |-> s1,
           err |-> IF getProtocolsDependencies(s1, protocols) # {}
                   THEN ModificationNotAllowed ELSE OK]

(***************************************************************************)
(* Project: the operations, as functions from the state and the arguments  *)
(* to the state left, the outcome and the launcher function called.        *)
(***************************************************************************)
Outcome(s, result, called) == [s |-> s, result |-> result, called |-> called]

\* Mutation of saveProtocolOp: the status of the protocol is not checked.
saveProtocolAnyStatus(s, p) ==
  LET c == checkModificationAllowed(s, {p})
  IN IF c.err # OK THEN Outcome(c.s, c.err, "none")
     ELSE LET s1 == setStatusOf(c.s, p, STATUS_SAVED)
          IN IF hasObjId(s1, p)
             THEN Outcome(storeProtocol(s1, p), OK, "none")
             ELSE Outcome(setupProtocol(s1, p), OK, "none")

\* Project.saveProtocol
saveProtocolOp(s, p) ==
  LET c == checkModificationAllowed(s, {p})
  IN IF c.err # OK THEN Outcome(c.s, c.err, "none")
     ELSE IF c.s.status[p] \in
               {STATUS_RUNNING, STATUS_FINISHED, STATUS_LAUNCHED}
          THEN Outcome(c.s, ModificationNotAllowed, "none")
          ELSE LET s1 == setStatusOf(c.s, p, STATUS_SAVED)
               IN IF hasObjId(s1, p)
                  THEN Outcome(storeProtocol(s1, p), OK, "none")
                  ELSE Outcome(setupProtocol(s1, p), OK, "none")

\* Mutation of deleteProtocolOp: the deletion is done before the check.
deleteProtocolUnchecked(s, protocols) ==
  LET c == checkModificationAllowed(s, protocols)
      s1 == [c.s EXCEPT
               !.relations = @ \ protocols,
               !.outputs = @ \ protocols,
               !.mapper = [p \in Prots |->
                             IF p \in protocols THEN NoObj ELSE @[p]],
               !.deleted = @ \cup protocols]
  IN Outcome(s1, c.err, "none")

\* Project.deleteProtocol
deleteProtocolOp(s, protocols) ==
  LET c == checkModificationAllowed(s, protocols)
  IN IF c.err # OK THEN Outcome(c.s, c.err, "none")
     ELSE Outcome(
            [c.s EXCEPT
               !.relations = @ \ protocols,
               !.outputs = @ \ protocols,
               !.mapper = [p \in Prots |->
                             IF p \in protocols THEN NoObj ELSE @[p]],
               !.workDir = [p \in Prots |->
                              IF p \in protocols /\ p \in c.s.workingDirSet
                              THEN "none" ELSE @[p]],
               !.deleted = @ \cup protocols],
            OK, "none")

\* Mutation of scheduleProtocolOp: the protocol is handed to pwprot.launch
\* instead of pwprot.schedule.
scheduleProtocolLaunches(s, p, prereqs) ==
  LET s1 == setStatusOf(s, p, STATUS_SCHEDULED)
      s2 == [s1 EXCEPT !.prerequisites[p] = @ \cup prereqs]
      s3 == setupProtocol(s2, p)
      s4 == makePathsAndClean(s3, p)
      s5 == copyDb(s4, p)
      s6 == [s5 EXCEPT !.proc[p] = "start"]
  IN Outcome(mapperStore(s6, p), OK, "schedule")

\* Project.scheduleProtocol.  self.mapper.deleteRelations(self) is given the
\* project, which owns no relation row: the relations stay.
scheduleProtocolOp(s, p, prereqs) ==
  LET s1 == setStatusOf(s, p, STATUS_SCHEDULED)
      s2 == [s1 EXCEPT !.prerequisites[p] = @ \cup prereqs]
      s3 == setupProtocol(s2, p)
      s4 == makePathsAndClean(s3, p)
      s5 == copyDb(s4, p)
      s6 == [s5 EXCEPT !.proc[p] = "sched"]
  IN Outcome(mapperStore(s6, p), OK, "schedule")

\* A run that pwprot.launch waited for: the process of the protocol has
\* ended and left its status in run.db, its outputs and relations (a
\* restart dropping the old outputs first).
runToEnd(s, p, end) ==
  [s EXCEPT !.localStore[p] = end,
            !.outputs = IF end = STATUS_FINISHED THEN @ \cup {p}
                        ELSE IF s.runMode[p] = MODE_RESTART THEN @ \ {p}
                        ELSE @,
            !.relations = IF end = STATUS_FINISHED THEN @ \cup {p} ELSE @,
            !.workDir[p] = "data",
            !.proc[p] = "none"]

\* Mutation of launchProtocolOp: the run mode does not count for the
\* modification check.
launchProtocolNoRestartCheck(s, p, scheduled, force, interactive, inStreaming, jobOk, waiting, end) ==
  IF s.prerequisites[p] # {} /\ ~scheduled
  THEN scheduleProtocolOp(s, p, {})
  ELSE
    LET doCheck == ~force /\ ~interactive /\ ~inStreaming
        c == IF doCheck THEN checkModificationAllowed(s, {p})
             ELSE [s |-> s, err |-> OK]
    IN IF c.err # OK THEN Outcome(c.s, c.err, "none")
       ELSE
         LET s1 == setStatusOf(c.s, p, STATUS_LAUNCHED)
             s2 == setupProtocol(s1, p)
             s3 == IF ~scheduled THEN copyDb(makePathsAndClean(s2, p), p)
                   ELSE s2
             s4 == IF ~jobOk THEN setStatusOf(s3, p, STATUS_FAILED)
                   ELSE IF waiting THEN runToEnd(s3, p, end)
                   ELSE [s3 EXCEPT !.proc[p] = "start"]
         IN Outcome(IF waiting THEN updateProtocol(s4, p)
                    ELSE mapperStore(s4, p), OK, "launch")

\* Mutation of launchProtocolOp: the protocol is scheduled only when one of
\* its prerequisites is still active.
launchProtocolActivePrereqs(s, p, scheduled, force, interactive, inStreaming, jobOk, waiting, end) ==
  IF (\E q \in s.prerequisites[p] : s.status[q] \in ACTIVE_STATUS)
     /\ ~scheduled
  THEN scheduleProtocolOp(s, p, {})
  ELSE
    LET isRestart == s.runMode[p] = MODE_RESTART
        doCheck == ~force /\ ((~interactive /\ ~inStreaming) \/ isRestart)
        c == IF doCheck THEN checkModificationAllowed(s, {p})
             ELSE [s |-> s, err |-> OK]
    IN IF c.err # OK THEN Outcome(c.s, c.err, "none")
       ELSE
         LET s1 == setStatusOf(c.s, p, STATUS_LAUNCHED)
             s2 == setupProtocol(s1, p)
             s3 == IF ~scheduled THEN copyDb(makePathsAndClean(s2, p), p)
                   ELSE s2
             s4 == IF ~jobOk THEN setStatusOf(s3, p, STATUS_FAILED)
                   ELSE IF waiting THEN runToEnd(s3, p, end)
                   ELSE [s3 EXCEPT !.proc[p] = "start"]
         IN Outcome(IF waiting THEN updateProtocol(s4, p)
                    ELSE mapperStore(s4, p), OK, "launch")

\* Project.launchProtocol.  interactive and inStreaming are the answers of
\* protocol.isInteractive() and protocol.isInStreaming(); jobOk tells
\* whether pwprot.launch returned a job id; waiting is the argument wait,
\* with which pwprot.launch returns when the run has ended, in status end.
launchProtocolOp(s, p, scheduled, force, interactive, inStreaming, jobOk, waiting, end) ==
  IF s.prerequisites[p] # {} /\ ~scheduled
  THEN scheduleProtocolOp(s, p, {})
  ELSE
    LET isRestart == s.runMode[p] = MODE_RESTART
        doCheck == ~force /\ ((~interactive /\ ~inStreaming) \/ isRestart)
        c == IF doCheck THEN checkModificationAllowed(s, {p})
             ELSE [s |-> s, err |-> OK]
    IN IF c.err # OK THEN Outcome(c.s, c.err, "none")
       ELSE
         LET s1 == setStatusOf(c.s, p, STATUS_LAUNCHED)
             s2 == setupProtocol(s1, p)
             s3 == IF ~scheduled THEN copyDb(makePathsAndClean(s2, p), p)
                   ELSE s2
             s4 == IF ~jobOk THEN setStatusOf(s3, p, STATUS_FAILED)
                   ELSE IF waiting THEN runToEnd(s3, p, end)
                   ELSE [s3 EXCEPT !.proc[p] = "start"]
         IN Outcome(IF waiting THEN updateProtocol(s4, p)
                    ELSE mapperStore(s4, p), OK, "launch")

\* The finally block shared by stopProtocol and resetProtocol runs whether
\* or not pwprot.stop raised; pwprot.stop is called for active protocols and
\* ends the external process when it does not raise.
stopCall(s, p, stopRaises) ==
  IF s.status[p] \in ACTIVE_STATUS /\ ~stopRaises
  THEN [s EXCEPT !.proc[p] = "none"] ELSE s

stopResult(s, p, stopRaises) ==
  IF s.status[p] \in ACTIVE_STATUS /\ stopRaises THEN StopError ELSE OK

stopCalled(s, p) == IF s.status[p] \in ACTIVE_STATUS THEN "stop" ELSE "none"

\* Mutation of stopProtocolOp: no finally block, the protocol is set ABORTED
\* and stored only when pwprot.stop did not raise.
stopProtocolNoFinally(s, p, stopRaises) ==
  LET s1 == stopCall(s, p, stopRaises)
      s2 == setStatusOf(s1, p, STATUS_ABORTED)
      s3 == [s2 EXCEPT !.localStore[p] = STATUS_ABORTED]
  IN IF stopResult(s, p, stopRaises) = OK
     THEN Outcome(storeProtocol(s3, p), OK, stopCalled(s, p))
     ELSE Outcome(s1, StopError, stopCalled(s, p))

\* Project.stopProtocol: protocol._store() goes to the run.db of the
\* protocol (setMapper(createMapper(protocol.getDbPath()))).
stopProtocolOp(s, p, stopRaises) ==
  LET s1 == stopCall(s, p, stopRaises)
      s2 == setStatusOf(s1, p, STATUS_ABORTED)
      s3 == [s2 EXCEPT !.localStore[p] = STATUS_ABORTED]
  IN Outcome(storeProtocol(s3, p), stopResult(s, p, stopRaises),
             stopCalled(s, p))

\* Mutation of resetProtocolOp: the protocol is set NEW instead of SAVED.
resetProtocolToNew(s, p, stopRaises) ==
  LET s1 == stopCall(s, p, stopRaises)
      s2 == setStatusOf(s1, p, STATUS_NEW)
      s3 == [s2 EXCEPT !.runMode[p] = MODE_RESTART]
      s4 == storeProtocol(mapperStore(s3, p), p)
      s5 == makePathsAndClean(s4, p)
  IN Outcome(storeProtocol(mapperStore(s5, p), p),
             stopResult(s, p, stopRaises), stopCalled(s, p))

\* Project.resetProtocol: protocol._store() goes to the mapper of the
\* protocol, the project mapper (newProtocol, _setProtocolMapper).
resetProtocolOp(s, p, stopRaises) ==
  LET s1 == stopCall(s, p, stopRaises)
      s2 == setStatusOf(s1, p, STATUS_SAVED)
      s3 == [s2 EXCEPT !.runMode[p] = MODE_RESTART]
      s4 == storeProtocol(mapperStore(s3, p), p)
      s5 == makePathsAndClean(s4, p)
  IN Outcome(storeProtocol(mapperStore(s5, p), p),
             stopResult(s, p, stopRaises), stopCalled(s, p))

\* Project.continueProtocol: continueFromInteractive() releases the waiting
\* step and leaves the status of the protocol alone; then launchProtocol
\* with its default arguments.
continueProtocolOp(s, p, interactive, inStreaming, jobOk) ==
  launchProtocolOp(s, p, FALSE, FALSE, interactive, inStreaming, jobOk,
                   FALSE, STATUS_FINISHED)

(***************************************************************************)
(* Project: the calls as actions.                                          *)
(***************************************************************************)
Live == Prots \ deleted

Record(op, protocols, from, o) ==
  /\ Apply(o.s)
  /\ lastOp' = [op |-> op, protocols |-> protocols, from |-> from,
                result |-> o.result, called |-> o.called]
  /\ nOps' = nOps + 1
  /\ UNCHANGED <<execVars, jobVars>>

SaveProtocol ==
  /\ nOps < MaxOps
  /\ \E p \in Live :
       Record("saveProtocol", {p}, status[p], saveProtocolOp(Cur, p))

DeleteProtocol ==
  /\ nOps < MaxOps
  /\ \E ps \in SUBSET Live :
       /\ ps # {}
       /\ Cardinality(ps) <= 2
       /\ Record("deleteProtocol", ps, "-", deleteProtocolOp(Cur, ps))

ScheduleProtocol ==
  /\ nOps < MaxOps
  /\ \E p \in Live :
       \E prereqs \in {{}} \cup {{q} : q \in inputs[p] \cap Live} :
         Record("scheduleProtocol", {p}, status[p],
                scheduleProtocolOp(Cur, p, prereqs))

LaunchProtocol ==
  /\ nOps < MaxOps
  /\ \E p \in Live, scheduled, force, interactive, inStreaming,
        jobOk, waiting \in BOOLEAN :
       \E end \in IF waiting /\ jobOk
                  THEN {STATUS_FINISHED, STATUS_FAILED}
                  ELSE {STATUS_FINISHED} :
         LET o == launchProtocolOp(Cur, p, scheduled, force, interactive,
                                   inStreaming, jobOk, waiting, end)
         IN /\ Apply(o.s)
            /\ lastOp' = [op |-> "launchProtocol", protocols |-> {p},
                          from |-> status[p], result |-> o.result,
                          called |-> o.called, jobOk |-> jobOk,
                          waiting |-> waiting]
  /\ nOps' = nOps + 1
  /\ UNCHANGED <<execVars, jobVars>>

StopProtocol ==
  /\ nOps < MaxOps
  /\ \E p \in Live, stopRaises \in BOOLEAN :
       Record("stopProtocol", {p}, status[p],
              stopProtocolOp(Cur, p, stopRaises))

ResetProtocol ==
  /\ nOps < MaxOps
  /\ \E p \in Live, stopRaises \in BOOLEAN :
       Record("resetProtocol", {p}, status[p],
              resetProtocolOp(Cur, p, stopRaises))

ContinueProtocol ==
  /\ nOps < MaxOps
  /\ \E p \in Live, interactive, inStreaming, jobOk \in BOOLEAN :
       Record("continueProtocol", {p}, status[p],
              continueProtocolOp(Cur, p, interactive, inStreaming, jobOk))

\* The periodic refresh of the runs view: Project.getRunsGraph(refresh=True).
Refresh ==
  /\ Apply(getRunsGraph(Cur, TRUE))
  /\ UNCHANGED <<lastOp, nOps>>
  /\ UNCHANGED <<execVars, jobVars>>

(***************************************************************************)
(* Project: the external processes started by the launcher.                *)
(***************************************************************************)
\* What the scheduler process waits for: the outputs of every protocol the
\* inputs point to are present and the prerequisites are finished.
inputsAvailable(s, p) ==
  /\ \A q \in inputs[p] : q \in s.outputs
  /\ \A q \in s.prerequisites[p] : s.localStore[q] = STATUS_FINISHED

\* The process started by pwprot.schedule: once the inputs are available it
\* launches the protocol, which becomes LAUNCHED in its run.db.
SchedulerLaunch ==
  /\ \E p \in Live :
       /\ proc[p] = "sched"
       /\ inputsAvailable(Cur, p)
       /\ Apply([Cur EXCEPT !.localStore[p] = STATUS_LAUNCHED,
                            !.proc[p] = "start"])
  /\ UNCHANGED <<lastOp, nOps>>
  /\ UNCHANGED <<execVars, jobVars>>

\* The process of a launched protocol: it becomes RUNNING (a restart drops
\* the old outputs), then ends FINISHED with outputs and relations, FAILED,
\* or stops at an interactive step.
ProtocolRun ==
  /\ \E p \in Live :
       \/ /\ proc[p] = "start"
          /\ Apply([Cur EXCEPT
                      !.localStore[p] = STATUS_RUNNING,
                      !.outputs = IF runMode[p] = MODE_RESTART
                                  THEN @ \ {p} ELSE @,
                      !.proc[p] = "run"])
       \/ /\ proc[p] = "run"
          /\ \E end \in {STATUS_FINISHED, STATUS_FAILED, STATUS_INTERACTIVE} :
               Apply([Cur EXCEPT
                        !.localStore[p] = end,
                        !.outputs = IF end = STATUS_FINISHED
                                    THEN @ \cup {p} ELSE @,
                        !.relations = IF end = STATUS_FINISHED
                                      THEN @ \cup {p} ELSE @,
                        !.workDir[p] = "data",
                        !.proc[p] = "none"])
  /\ UNCHANGED <<lastOp, nOps>>
  /\ UNCHANGED <<execVars, jobVars>>

(***************************************************************************)
(* Project: specification.                                                 *)
(***************************************************************************)
NoOp == [op |-> "none", protocols |-> {}, from |-> "-", result |-> OK,
         called |-> "none"]

\* A project just loaded (Project.load), read-only or not, nothing cached.
\* Its store holds the protocols of an earlier session: all of them or all
\* but the last one, which is then a new object (newProtocol) with status
\* NEW; the stored ones are SAVED, except that protocols 1 and 2 may have
\* run and be FINISHED, with their outputs, relations and run.db.
InitProjectState ==
  /\ readOnly \in BOOLEAN
  /\ \E new \in {{}, {MaxProt}}, done \in {{}, {1, 2}} :
       /\ new \cap done = {}
       /\ status = [p \in Prots |->
                      IF p \in new THEN STATUS_NEW
                      ELSE IF p \in done THEN STATUS_FINISHED
                      ELSE STATUS_SAVED]
       /\ mapper = [p \in Prots |->
                      IF p \in new THEN NoObj
                      ELSE IF p \in done THEN STATUS_FINISHED
                      ELSE STATUS_SAVED]
       /\ workingDirSet = Prots \ new
       /\ workDir = [p \in Prots |->
                       IF p \in new THEN "none"
                       ELSE IF p \in done THEN "data" ELSE "clean"]
       /\ relations = done
       /\ outputs = done
       /\ localStore = [p \in Prots |->
                          IF p \in done THEN STATUS_FINISHED ELSE NoObj]
  /\ runMode = [p \in Prots |-> MODE_RESUME]
  /\ prerequisites = [p \in Prots |-> {}]
  /\ proc = [p \in Prots |-> "none"]
  /\ runs = [loaded |-> FALSE, ids |-> {}]
  /\ runsGraph = [built |-> FALSE, nodes |-> {}]
  /\ deleted = {}
  /\ lastOp = NoOp
  /\ nOps = 0

\* No runSteps call in progress.
IdleExecutor ==
  /\ executor = "serial"
  /\ numberOfProcs = 1
  /\ steps = <<>>
  /\ pc = "done"
  /\ runningSteps = <<>>
  /\ freeNodes = <<>>
  /\ nodesFinished = <<>>
  /\ doContinue = TRUE
  /\ current = 0
  /\ threads = {}
  /\ nStarted = <<>>
  /\ nFinished = <<>>

InitProject ==
  /\ inputs \in InputGraphs
  /\ InitProjectState
  /\ IdleExecutor
  /\ IdleJobs

NextProject ==
  \/ SaveProtocol
  \/ DeleteProtocol
  \/ ScheduleProtocol
  \/ LaunchProtocol
  \/ StopProtocol
  \/ ResetProtocol
  \/ ContinueProtocol
  \/ Refresh
  \/ SchedulerLaunch
  \/ ProtocolRun

SpecProject == InitProject /\ [][NextProject]_vars

(***************************************************************************)
(* Project: workflows (_getWorkflowFromProtocol, launchWorkflow).          *)
(***************************************************************************)
INITIAL_SLEEP_TIME == 2

\* Input pointers with a back edge: 2 takes inputs from 1 and 3, 3 from 1.
BackInputs ==
  [p \in Prots |-> IF p = 1 THEN {}
                   ELSE IF p = 2 THEN {1, 3}
                   ELSE IF p = 3 THEN {1} ELSE {p - 1}]

\* Input pointers of 1 and 2 pointing at each other.
MutualInputs ==
  [p \in Prots |-> IF p = 1 THEN {2} ELSE IF p = 2 THEN {1} ELSE {p - 1}]

WorkflowGraphs == {ChainInputs, BackInputs, MutualInputs}

\* The edges parentNode.addChild(node) of getGraphFromRuns among nodes: a
\* pointer of a run to itself is logged and adds no edge.
RunsEdges(nodes) ==
  {e \in nodes \X nodes : e[1] \in inputs[e[2]] /\ e[1] # e[2]}

Compose(R) ==
  R \cup {<<x[1][1], x[2][2]>> : x \in {y \in R \X R : y[1][2] = y[2][1]}}

RECURSIVE Closure(_, _)
Closure(R, n) == IF n = 0 THEN R ELSE Closure(Compose(R), n - 1)

\* No directed cycle among the run nodes.
Acyclic(nodes) ==
  \A n \in nodes :
    <<n, n>> \notin Closure(RunsEdges(nodes), Cardinality(nodes))

\* configuredProtList: the entries [id, level] in insertion order.
mapKeys(conf) == {conf[i].id : i \in DOMAIN conf}

levelOf(conf, p) ==
  LET i == CHOOSE j \in DOMAIN conf : conf[j].id = p IN conf[i].level

\* Mutation of visitDeps: a protocol keeps the level it got first.
RECURSIVE visitDepsFirstLevel(_, _, _, _)
visitDepsFirstLevel(conf, aux, deps, level) ==
  IF deps = <<>> THEN [conf |-> conf, aux |-> aux]
  ELSE
    LET d == Head(deps)
        aux2 == IF d \in Range(aux) THEN aux ELSE Append(aux, d)
        conf2 == IF d \notin mapKeys(conf)
                 THEN Append(conf, [id |-> d, level |-> level])
                 ELSE conf
    IN visitDepsFirstLevel(conf2, aux2, Tail(deps), level)

\* The loop over the children of _getWorkflowFromProtocol.
RECURSIVE visitDeps(_, _, _, _)
visitDeps(conf, aux, deps, level) ==
  IF deps = <<>> THEN [conf |-> conf, aux |-> aux]
  ELSE
    LET d == Head(deps)
        aux2 == IF d \in Range(aux) THEN aux ELSE Append(aux, d)
        conf2 ==
          IF d \notin mapKeys(conf)
          THEN Append(conf, [id |-> d, level |-> level])
          ELSE IF level > levelOf(conf, d)
               THEN [i \in DOMAIN conf |->
                       IF conf[i].id = d
                       THEN [id |-> d, level |-> level] ELSE conf[i]]
               ELSE conf
    IN visitDeps(conf2, aux2, Tail(deps), level)

\* Mutation of walkWorkflow: the children get the level of their parent.
RECURSIVE walkWorkflowSameLevel(_, _, _, _)
walkWorkflowSameLevel(s, conf, aux, active) ==
  IF aux = <<>> THEN [map |-> conf, active |-> active]
  ELSE
    LET p == Head(aux)
        level == levelOf(conf, p)
        active2 == IF /\ s.status[p] \in ACTIVE_STATUS
                      /\ s.status[p] # STATUS_INTERACTIVE
                   THEN Append(active, p) ELSE active
        deps == SortedSeq(getChilds(s.runsGraph.nodes, p))
        r == visitDeps(conf, Tail(aux), deps, level)
    IN walkWorkflowSameLevel(s, r.conf, r.aux, active2)

\* The while loop of _getWorkflowFromProtocol; the children of a node come
\* in the order the runs were read from the store (by id).
RECURSIVE walkWorkflow(_, _, _, _)
walkWorkflow(s, conf, aux, active) ==
  IF aux = <<>> THEN [map |-> conf, active |-> active]
  ELSE
    LET p == Head(aux)
        level == levelOf(conf, p) + 1
        active2 == IF /\ s.status[p] \in ACTIVE_STATUS
                      /\ s.status[p] # STATUS_INTERACTIVE
                   THEN Append(active, p) ELSE active
        deps == SortedSeq(getChilds(s.runsGraph.nodes, p))
        r == visitDeps(conf, Tail(aux), deps, level)
    IN walkWorkflow(s, r.conf, r.aux, active2)

\* Project._getWorkflowFromProtocol, for protocols whose parameters need no
\* fix: the state left by getRunsGraph(), the level-annotated map and the
\* active protocols.
getWorkflowFromProtocol(s, root) ==
  LET s1 == getRunsGraph(s, FALSE)
      w == walkWorkflow(s1, <<[id |-> root, level |-> 0]>>, <<root>>, <<>>)
  IN [s |-> s1, map |-> w.map, active |-> w.active]

\* The state of a loop over the entries of a map: the project, the
\* scheduleProtocol calls made, the errors collected, the loop broken, an
\* exception on its way out of the loop.
Loop(s, calls, errors, broken) ==
  [s |-> s, calls |-> calls, errors |-> errors, broken |-> broken,
   raised |-> FALSE]

ScheduleError == "Exception raised by schedule"

\* Project.scheduleProtocol when pwprot.schedule raises: the protocol was
\* set SCHEDULED and set up, the last store is not reached.
scheduleProtocolRaising(s, p, prereqs) ==
  LET s1 == setStatusOf(s, p, STATUS_SCHEDULED)
      s2 == [s1 EXCEPT !.prerequisites[p] = @ \cup prereqs]
      s3 == setupProtocol(s2, p)
      s4 == makePathsAndClean(s3, p)
  IN Outcome(copyDb(s4, p), ScheduleError, "schedule")

\* The scheduleProtocol call of a workflow entry; failing holds the
\* protocols for which the calls made outside the project raise.
scheduleEntry(s, p, failing) ==
  IF p \in failing THEN scheduleProtocolRaising(s, p, {})
  ELSE scheduleProtocolOp(s, p, {})

\* The loop after a scheduleProtocol call made inside try: the call is
\* recorded; an exception is appended to errorsList and breaks the loop.
afterSchedule(l, e, o, sleep) ==
  [s |-> o.s,
   calls |-> Append(l.calls, [id |-> e.id, initialSleepTime |-> sleep]),
   errors |-> IF o.result = OK THEN l.errors ELSE Append(l.errors, e.id),
   broken |-> o.result # OK,
   raised |-> FALSE]

\* The interactive branch of _restartWorkflow, which is not inside try: an
\* exception of makePathsAndClean leaves the loop and the caller.
restartInteractive(l, e, failing) ==
  LET s1 == setStatusOf(l.s, e.id, STATUS_SAVED)
      s2 == storeProtocol(s1, e.id)
      s3 == [s2 EXCEPT !.runMode[e.id] = MODE_RESTART]
      s4 == setupProtocol(s3, e.id)
      s5 == makePathsAndClean(s4, e.id)
  IN IF e.id \in failing
     THEN [s |-> s4, calls |-> l.calls, errors |-> l.errors,
           broken |-> TRUE, raised |-> TRUE]
     ELSE Loop(mapperStore(s5, e.id), l.calls, l.errors, FALSE)

\* Mutation of restartEntry: scheduleProtocol is called without
\* initialSleepTime, which then is 0.
restartEntryNoSleep(l, e, interactive, failing) ==
  IF e.id \notin interactive
  THEN LET s1 == [l.s EXCEPT !.runMode[e.id] = MODE_RESTART]
       IN afterSchedule(l, e, scheduleEntry(s1, e.id, failing), 0)
  ELSE restartInteractive(l, e, failing)

\* One entry of _restartWorkflow.
restartEntry(l, e, interactive, failing) ==
  IF e.id \notin interactive
  THEN LET s1 == [l.s EXCEPT !.runMode[e.id] = MODE_RESTART]
       IN afterSchedule(l, e, scheduleEntry(s1, e.id, failing),
                        e.level * INITIAL_SLEEP_TIME)
  ELSE restartInteractive(l, e, failing)

\* Project._restartWorkflow
RECURSIVE restartWorkflow(_, _, _, _)
restartWorkflow(l, map, interactive, failing) ==
  IF map = <<>> \/ l.broken THEN l
  ELSE restartWorkflow(restartEntry(l, Head(map), interactive, failing),
                       Tail(map), interactive, failing)

\* Mutation of continueEntry: the loop goes on after the error of a level 0
\* entry that does not work in streaming.
continueEntryNoBreak(l, e, interactive, streaming, failing) ==
  IF e.id \in interactive THEN l
  ELSE IF e.id \in streaming
  THEN LET s1 == setStatusOf(l.s, e.id, STATUS_SAVED)
           s2 == [s1 EXCEPT !.localStore[e.id] = STATUS_SAVED]
           s3 == storeProtocol(s2, e.id)
       IN afterSchedule(l, e, scheduleEntry(s3, e.id, failing),
                        e.level * INITIAL_SLEEP_TIME)
  ELSE IF e.level # 0
  THEN LET r == restartWorkflow(l, <<e>>, interactive, failing)
       IN [r EXCEPT !.broken = r.raised]
  ELSE Loop(l.s, l.calls, Append(l.errors, e.id), FALSE)

\* One entry of _continueWorkflow; streaming holds the protocols for which
\* worksInStreaming() is true.
continueEntry(l, e, interactive, streaming, failing) ==
  IF e.id \in interactive THEN l
  ELSE IF e.id \in streaming
  THEN LET s1 == setStatusOf(l.s, e.id, STATUS_SAVED)
           s2 == [s1 EXCEPT !.localStore[e.id] = STATUS_SAVED]
           s3 == storeProtocol(s2, e.id)
       IN afterSchedule(l, e, scheduleEntry(s3, e.id, failing),
                        e.level * INITIAL_SLEEP_TIME)
  ELSE IF e.level # 0
  THEN LET r == restartWorkflow(l, <<e>>, interactive, failing)
       IN [r EXCEPT !.broken = r.raised]
  ELSE Loop(l.s, l.calls, Append(l.errors, e.id), TRUE)

\* Project._continueWorkflow
RECURSIVE continueWorkflow(_, _, _, _, _)
continueWorkflow(l, map, interactive, streaming, failing) ==
  IF map = <<>> \/ l.broken THEN l
  ELSE continueWorkflow(continueEntry(l, Head(map), interactive, streaming,
                                      failing),
                        Tail(map), interactive, streaming, failing)

\* Project.launchWorkflow
launchWorkflowOp(s, map, mode, interactive, streaming, failing) ==
  IF mode = MODE_RESTART
  THEN restartWorkflow(Loop(s, <<>>, <<>>, FALSE), map, interactive, failing)
  ELSE continueWorkflow(Loop(s, <<>>, <<>>, FALSE), map, interactive,
                        streaming, failing)

\* The answers of isInteractive() and worksInStreaming(): true for at most
\* one protocol of the project.
AtMostOne == {{}} \cup {{q} : q \in Prots}

\* The same answers, asked of the protocols of a workflow only.
AtMostOneOf(S) == {a \in AtMostOne : a \subseteq S}

\* The map of _getWorkflowFromProtocol for a stored protocol handed to
\* launchWorkflow.  On a graph with a cycle the while loop of
\* _getWorkflowFromProtocol does not end: no call is made then.
LaunchWorkflow ==
  /\ nOps < MaxOps
  /\ \E root \in Live, mode \in {MODE_RESTART, MODE_RESUME} :
       LET g == getRunsGraph(Cur, FALSE)
           w == getWorkflowFromProtocol(Cur, root)
       IN /\ root \in g.runsGraph.nodes
          /\ Acyclic(g.runsGraph.nodes)
          /\ \E interactive \in AtMostOneOf(mapKeys(w.map)),
                failing \in AtMostOneOf(mapKeys(w.map)),
                streaming \in IF mode = MODE_RESTART THEN {{}}
                              ELSE AtMostOneOf(mapKeys(w.map)) :
               LET l == launchWorkflowOp(w.s, w.map, mode, interactive,
                                         streaming, failing)
               IN /\ Apply(l.s)
                  /\ lastOp' =
                       [op |-> "launchWorkflow",
                        protocols |-> mapKeys(w.map),
                        from |-> status[root],
                        result |-> IF l.raised THEN ScheduleError
                                   ELSE IF l.errors = <<>> THEN OK
                                   ELSE "errors",
                        called |-> IF l.calls = <<>> THEN "none"
                                   ELSE "schedule",
                        mode |-> mode, interactive |-> interactive,
                        streaming |-> streaming, failing |-> failing,
                        map |-> w.map, calls |-> l.calls,
                        errors |-> l.errors, before |-> Cur]
  /\ nOps' = nOps + 1
  /\ UNCHANGED <<execVars, jobVars>>

\* Project.stopWorkFlow: stopProtocol is called on each protocol of the
\* list inside try; the protocols whose call raised are returned.  raising
\* holds the protocols for which pwprot.stop raises.
RECURSIVE stopWorkFlowOp(_, _, _, _)
stopWorkFlowOp(l, list, raising, attempted) ==
  IF list = <<>>
  THEN [s |-> l.s, errors |-> l.errors, attempted |-> attempted,
        raised |-> FALSE]
  ELSE LET p == Head(list)
           o == stopProtocolOp(l.s, p, p \in raising)
       IN stopWorkFlowOp(Loop(o.s, l.calls,
                              IF o.result = OK THEN l.errors
                              ELSE Append(l.errors, p), FALSE),
                         Tail(list), raising, Append(attempted, p))

StopWorkFlow ==
  /\ nOps < MaxOps
  /\ \E S \in SUBSET Live \ {{}} :
       \E raising \in AtMostOneOf(S) :
         LET r == stopWorkFlowOp(Loop(Cur, <<>>, <<>>, FALSE), SortedSeq(S),
                                 raising, <<>>)
         IN /\ Apply(r.s)
            /\ lastOp' = [op |-> "stopWorkFlow",
                          protocols |-> S,
                          from |-> STATUS_NEW,
                          result |-> IF r.raised THEN StopError ELSE OK,
                          called |-> "stop",
                          raising |-> raising,
                          attempted |-> r.attempted,
                          errors |-> r.errors,
                          before |-> Cur]
  /\ nOps' = nOps + 1
  /\ UNCHANGED <<execVars, jobVars>>

\* A project whose protocols were created with newProtocol and not saved
\* yet, or loaded with all its protocols SAVED, or (input pointers without
\* a cycle) with all of them FINISHED.
InitWorkflowState ==
  /\ readOnly \in BOOLEAN
  /\ \E kind \in {"new", "saved", "finished"} :
       /\ kind = "finished" => Acyclic(Prots)
       /\ status = [p \in Prots |->
                      IF kind = "new" THEN STATUS_NEW
                      ELSE IF kind = "saved" THEN STATUS_SAVED
                      ELSE STATUS_FINISHED]
       /\ mapper = [p \in Prots |->
                      IF kind = "new" THEN NoObj
                      ELSE IF kind = "saved" THEN STATUS_SAVED
                      ELSE STATUS_FINISHED]
       /\ workingDirSet = IF kind = "new" THEN {} ELSE Prots
       /\ workDir = [p \in Prots |->
                       IF kind = "new" THEN "none"
                       ELSE IF kind = "saved" THEN "clean" ELSE "data"]
       /\ relations = IF kind = "finished" THEN Prots ELSE {}
       /\ outputs = IF kind = "finished" THEN Prots ELSE {}
       /\ localStore = [p \in Prots |->
                          IF kind = "finished" THEN STATUS_FINISHED
                          ELSE NoObj]
  /\ runMode = [p \in Prots |-> MODE_RESUME]
  /\ prerequisites = [p \in Prots |-> {}]
  /\ proc = [p \in Prots |-> "none"]
  /\ runs = [loaded |-> FALSE, ids |-> {}]
  /\ runsGraph = [built |-> FALSE, nodes |-> {}]
  /\ deleted = {}
  /\ lastOp = NoOp
  /\ nOps = 0

InitWorkflow ==
  /\ inputs \in WorkflowGraphs
  /\ InitWorkflowState
  /\ IdleExecutor
  /\ IdleJobs

\* The calls on a project whose external processes make no step meanwhile.
NextWorkflow ==
  \/ SaveProtocol
  \/ LaunchWorkflow
  \/ StopWorkFlow
  \/ Refresh

SpecWorkflow == InitWorkflow /\ [][NextWorkflow]_vars

(***************************************************************************)
(* Project: export and import of workflows (getProtocolsDict,               *)
(* loadProtocols).                                                         *)
(*                                                                         *)
(* A protocol with one input holds it in a Pointer parameter, a protocol   *)
(* with several holds them in a PointerList parameter, in id order.  A     *)
(* string is the sequence of its pieces, "." being a piece of its own.     *)
(* Outside the sources and modelled from the specification: what           *)
(* getDefinitionDict writes ('object.id' and '_prerequisites' as strings,  *)
(* pointer parameters left to getProtocolsDict), Pointer.getUniqueId,      *)
(* Pointer.setExtendedParts, and the ids the mapper gives to new objects.  *)
(***************************************************************************)
AttributeError == "AttributeError: 'NoneType' object has no attribute 'getChilds'"

\* A pointer that points to nothing.
NonePointer == [target |-> 0, extended |-> <<>>]

\* The output of q that the inputs of other protocols point to.
keyOf(q) == IF q = 1 THEN <<"outputSet", ".", "1">> ELSE <<"output">>

isPointerList(p) == Cardinality(inputs[p]) > 1

\* '%s.%s' % (protId, oKey), also what Pointer.getUniqueId gives.
Format(protId, oKey) == <<ToString(protId), ".">> \o oKey

\* value.split('.')
Split(value) == SelectSeq(value, LAMBDA x : x # ".")

\* Pointer.setExtendedParts: the parts joined with ".".
RECURSIVE JoinParts(_)
JoinParts(parts) ==
  IF Len(parts) <= 1 THEN parts
  ELSE <<parts[1], ".">> \o JoinParts(Tail(parts))

\* prot.getDefinitionDict()
getDefinitionDict(s, p) ==
  [id |-> ToString(p), pointer |-> <<>>, list |-> <<>>,
   prerequisites |-> {ToString(r) : r \in s.prerequisites[p]}]

\* Project.getProtocolsDict, then json.dumps(list(newDict.values())): the
\* state left by getRunsGraph(), the outcome and the list written.
getProtocolsDict(s, protocols) ==
  LET s1 == getRunsGraph(s, FALSE)
      nodes == s1.runsGraph.nodes
      inDict == Range(protocols)
      parents(child) == {prot \in inDict : child \in getChilds(nodes, prot)}
      childDict(child) ==
        IF parents(child) = {} THEN getDefinitionDict(s1, child)
        ELSE IF isPointerList(child)
             THEN LET inputAttr == SortedSeq(inputs[child])
                  IN [getDefinitionDict(s1, child) EXCEPT
                        !.list = [k \in DOMAIN inputAttr |->
                                    Format(inputAttr[k], keyOf(inputAttr[k]))]]
             ELSE LET protId == CHOOSE prot \in parents(child) : TRUE
                  IN [getDefinitionDict(s1, child) EXCEPT
                        !.pointer = Format(protId, keyOf(protId))]
  IN IF \E k \in DOMAIN protocols : protocols[k] \notin nodes
     THEN [s |-> s1, result |-> AttributeError, file |-> <<>>]
     ELSE [s |-> s1, result |-> OK,
           file |-> [k \in DOMAIN protocols |-> childDict(protocols[k])]]

\* _setPointer of loadProtocols.
setPointer(newDict, value) ==
  IF value = <<>> THEN NonePointer
  ELSE LET parts == Split(value)
           found == parts[1] \in DOMAIN newDict
       IN [target |-> IF found THEN newDict[parts[1]] ELSE 0,
           extended |-> IF found THEN JoinParts(Tail(parts)) ELSE <<>>]

\* _setPrerequisites of loadProtocols.
setPrerequisites(newDict, prereqs) ==
  {newDict[r] : r \in prereqs \cap DOMAIN newDict}

\* Project.loadProtocols on a writable project whose last object id is
\* t.last: every protocol is created and saved, then the prerequisites and
\* the pointers are set and the protocol stored.
loadProtocols(t, protocolsList) ==
  LET newId(k) == t.last + k
      newDict == [id \in {protocolsList[k].id : k \in DOMAIN protocolsList} |->
                    newId(CHOOSE k \in DOMAIN protocolsList :
                            protocolsList[k].id = id)]
      prot(k) ==
        [pointer |-> setPointer(newDict, protocolsList[k].pointer),
         list |-> [j \in DOMAIN protocolsList[k].list |->
                     setPointer(newDict, protocolsList[k].list[j])],
         prerequisites |->
           setPrerequisites(newDict, protocolsList[k].prerequisites)]
  IN [last |-> t.last + Len(protocolsList), loaded |-> TRUE,
      newDict |-> newDict,
      prots |-> [n \in {newId(k) : k \in DOMAIN protocolsList} |->
                   prot(n - t.last)]]

\* The lists of protocols given to exportProtocols.
ExportLists ==
  UNION {{l \in [1..k -> Prots] : \A i, j \in 1..k : i # j => l[i] # l[j]} :
           k \in 1..MaxProt}

ExportProtocols ==
  /\ exportResult = "none"
  /\ \E protocols \in ExportLists :
       /\ \A k \in DOMAIN protocols : hasObjId(Cur, protocols[k])
       /\ LET o == getProtocolsDict(Cur, protocols)
          IN /\ Apply(o.s)
             /\ file' = o.file
             /\ exportList' = protocols
             /\ exportResult' = o.result
  /\ UNCHANGED <<lastOp, nOps, target>>
  /\ UNCHANGED <<execVars, graphVars, viewVars, gpuVars, queueVars, mpiVars>>

LoadProtocols ==
  /\ exportResult = OK
  /\ ~target.loaded
  /\ target' = loadProtocols(target, file)
  /\ UNCHANGED <<file, exportList, exportResult>>
  /\ UNCHANGED <<execVars, graphVars, projVars, viewVars, gpuVars, queueVars, mpiVars>>

\* The "wait for" lists of the protocols of the source project.
PrerequisiteChoices ==
  {[p \in Prots |-> {}],
   [p \in Prots |-> IF p = MaxProt THEN {1} ELSE {}],
   [p \in Prots |-> IF p = 2 THEN {1, MaxProt} ELSE {}]}

\* A source project with all its protocols SAVED, or with the last one
\* created and not saved yet; a target project that is empty or has as many
\* objects as the source.
InitExchange ==
  /\ inputs \in {ChainInputs, BackInputs}
  /\ readOnly = FALSE
  /\ \E new \in {{}, {MaxProt}} :
       /\ status = [p \in Prots |->
                      IF p \in new THEN STATUS_NEW ELSE STATUS_SAVED]
       /\ mapper = [p \in Prots |->
                      IF p \in new THEN NoObj ELSE STATUS_SAVED]
       /\ workingDirSet = Prots \ new
       /\ workDir = [p \in Prots |-> IF p \in new THEN "none" ELSE "clean"]
  /\ relations = {}
  /\ outputs = {}
  /\ localStore = [p \in Prots |-> NoObj]
  /\ runMode = [p \in Prots |-> MODE_RESUME]
  /\ prerequisites \in PrerequisiteChoices
  /\ proc = [p \in Prots |-> "none"]
  /\ runs = [loaded |-> FALSE, ids |-> {}]
  /\ runsGraph = [built |-> FALSE, nodes |-> {}]
  /\ deleted = {}
  /\ lastOp = NoOp
  /\ nOps = 0
  /\ IdleExecutor
  /\ IdleGpu
  /\ IdleQueue
  /\ IdleMpi
  /\ IdleView
  /\ IdleGraph
  /\ file = <<>>
  /\ exportList = <<>>
  /\ exportResult = "none"
  /\ \E last \in {0, MaxProt} :
       target = [last |-> last, loaded |-> FALSE, newDict |-> <<>>,
                 prots |-> <<>>]

NextExchange ==
  \/ SaveProtocol
  \/ Refresh
  \/ ExportProtocols
  \/ LoadProtocols

SpecExchange == InitExchange /\ [][NextExchange]_vars

(***************************************************************************)
(* ThreadStepExecutor.__init__ and getGpuList: the GPUs of each node.       *)
(***************************************************************************)
MaxGpus == 5
MaxNodes == 3

GpuIds == 0..(MaxGpus - 1)

\* The GPU lists given to the constructor: each device is named once.
GpuLists ==
  UNION {{l \in [1..k -> GpuIds] : \A i, j \in 1..k : i # j => l[i] # l[j]} :
           k \in 0..MaxGpus}

\* l * n on Python lists.
RECURSIVE Repeat(_, _)
Repeat(l, n) == IF n <= 0 THEN <<>> ELSE l \o Repeat(l, n - 1)

\* l[a:b] on Python lists, 0 <= a.
Slice(l, a, b) == SubSeq(l, a + 1, Min(b, Len(l)))

\* Mutation of chunk: the quotient is rounded up.
chunkCeil(nGpu, n) == (nGpu + n - 1) \div n

\* chunk = int(nGpu / nThreads)
chunk(nGpu, n) == nGpu \div n

\* self.gpuList when the constructor returns: repeated until it has
\* nThreads items when it is shorter.
expandGpuList(g, n) ==
  IF g # <<>> /\ n > Len(g)
  THEN Slice(Repeat(g, (n \div Len(g)) + 1), 0, n)
  ELSE g

\* Mutation of threadGpuDict: one GPU per node whatever the lengths.
threadGpuDictOnePerNode(g, n) ==
  IF g = <<>> THEN <<>>
  ELSE LET l == expandGpuList(g, n)
       IN [node \in 0..(Min(n, Len(l)) - 1) |-> <<l[node + 1]>>]

\* self.gpuDict when the constructor returns (a function from nodes).
threadGpuDict(g, n) ==
  IF g = <<>> THEN <<>>
  ELSE IF Len(g) > n
       THEN [node \in 0..(n - 1) |->
               Slice(g, node * chunk(Len(g), n),
                        (node + 1) * chunk(Len(g), n))]
       ELSE LET l == expandGpuList(g, n)
            IN [node \in 0..(Min(n, Len(l)) - 1) |-> <<l[node + 1]>>]

\* Mutation of getGpuList: every thread gets the list of node 0.
getGpuListOfNodeZero(dict, thId) == IF 0 \in DOMAIN dict THEN dict[0] ELSE <<>>

\* self.gpuDict.get(thId, [])
getGpuList(dict, thId) == IF thId \in DOMAIN dict THEN dict[thId] ELSE <<>>

NewThreadStepExecutor ==
  /\ ~gpuBuilt
  /\ gpuList' = expandGpuList(gpuListArg, nThreads)
  /\ gpuDict' = threadGpuDict(gpuListArg, nThreads)
  /\ gpuBuilt' = TRUE
  /\ UNCHANGED <<nThreads, gpuListArg, gpuGot>>
  /\ UNCHANGED <<execVars, graphVars, projVars, viewVars, queueVars, mpiVars, xferVars>>

\* The thId of the threads that may call getGpuList(): the live
\* StepThreads of the runSteps call, any node when none is modelled.
CallerIds ==
  IF steps = <<>> THEN 0..(nThreads - 1) ELSE {t[1] : t \in threads}

\* getGpuList() called from the StepThread of a node.
GetGpuList ==
  /\ gpuBuilt
  /\ \E thId \in CallerIds :
       gpuGot' = [thId |-> thId, gpus |-> getGpuList(gpuDict, thId)]
  /\ UNCHANGED <<nThreads, gpuListArg, gpuList, gpuDict, gpuBuilt>>
  /\ UNCHANGED <<execVars, graphVars, projVars, viewVars, queueVars, mpiVars, xferVars>>

InitGpu ==
  /\ nThreads \in 1..MaxNodes
  /\ gpuListArg \in GpuLists
  /\ gpuList = gpuListArg
  /\ gpuDict = <<>>
  /\ gpuBuilt = FALSE
  /\ gpuGot = [thId |-> -1, gpus |-> <<>>]
  /\ IdleExecutor
  /\ IdleProject
  /\ IdleQueue
  /\ IdleMpi
  /\ IdleXfer
  /\ IdleView
  /\ IdleGraph

NextGpu ==
  \/ NewThreadStepExecutor
  \/ GetGpuList

SpecGpu == InitGpu /\ [][NextGpu]_vars

\* The GPU lists of the runs below: the first k devices, in order.
RunGpuLists == {[i \in 1..k |-> i - 1] : k \in 0..MaxGpus}

\* A ThreadStepExecutor just constructed on a GPU list, at the start of its
\* runSteps call.
InitGpuRun ==
  /\ InitRunSteps
  /\ executor = "thread"
  /\ nThreads = numberOfProcs
  /\ gpuListArg \in RunGpuLists
  /\ gpuList = expandGpuList(gpuListArg, nThreads)
  /\ gpuDict = threadGpuDict(gpuListArg, nThreads)
  /\ gpuBuilt = TRUE
  /\ gpuGot = [thId |-> -1, gpus |-> <<>>]
  /\ IdleQueue
  /\ IdleMpi
  /\ IdleXfer
  /\ IdleView
  /\ IdleGraph

\* runSteps of the thread pool, the steps running in the StepThreads
\* calling getGpuList().
NextGpuRun ==
  \/ Scan
  \/ Notify
  \/ Launch
  \/ StepThreadRun
  \/ GetGpuList
  \/ StepsCheck
  \/ FinalCheck
  \/ Join

SpecGpuRun == InitGpuRun /\ [][NextGpuRun]_vars

(***************************************************************************)
(* QueueStepExecutor.runJob and _checkJobStatus.                            *)
(***************************************************************************)
MaxPolls == 102

UNKNOWN_JOBID == "UNKNOWN_JOBID"

\* Outputs of the check command: nothing, or some text.
CheckOutputs == {"", "R", "C"}

\* hostConfig.getJobDoneRegex(): None, or a pattern, given by the outputs in
\* which re.search finds it.
JobDoneRegexes ==
  {[isNone |-> TRUE, matches |-> {}]}
    \cup {[isNone |-> FALSE, matches |-> m] : m \in SUBSET CheckOutputs}

\* re.search(jobDoneRegex, out) finds a match.
search(regex, o) == o \in regex.matches

\* Mutation of checkJobStatus: the job-done regex is not looked at.
checkJobStatusNoRegex(regex, o) ==
  IF o = "" THEN STATUS_FINISHED ELSE STATUS_RUNNING

checkJobStatus(regex, o) ==
  IF o = "" THEN STATUS_FINISHED
  ELSE IF ~regex.isNone
       THEN IF search(regex, o) THEN STATUS_FINISHED ELSE STATUS_RUNNING
       ELSE STATUS_RUNNING

\* Mutation of nextWait: no upper limit.
nextWaitUncapped(w) == w + 3

\* if wait < 300: wait += 3
nextWait(w) == IF w < 300 THEN w + 3 ELSE w

\* runJob up to the polling loop: the job is submitted; without a job id the
\* call raises.
Submit ==
  /\ qpc = "submit"
  /\ \E j \in {"job", "None", UNKNOWN_JOBID} :
       /\ jobid' = j
       /\ IF j = "None" \/ j = UNKNOWN_JOBID
          THEN qpc' = "raised" /\ wait' = wait
          ELSE qpc' = "polling" /\ wait' = 3
  /\ UNCHANGED <<jobDoneRegex, out, slept, nPolls>>
  /\ UNCHANGED <<execVars, graphVars, projVars, viewVars, gpuVars, mpiVars, xferVars>>

\* One pass of the while loop: the check command runs; on RUNNING the
\* thread sleeps wait seconds and wait is raised, otherwise runJob returns.
Poll ==
  /\ qpc = "polling"
  /\ nPolls < MaxPolls
  /\ \E o \in CheckOutputs :
       /\ out' = o
       /\ IF checkJobStatus(jobDoneRegex, o) = STATUS_RUNNING
          THEN /\ slept' = wait
               /\ wait' = nextWait(wait)
               /\ qpc' = "polling"
          ELSE /\ qpc' = "returned"
               /\ UNCHANGED <<slept, wait>>
  /\ nPolls' = nPolls + 1
  /\ UNCHANGED <<jobid, jobDoneRegex>>
  /\ UNCHANGED <<execVars, graphVars, projVars, viewVars, gpuVars, mpiVars, xferVars>>

InitQueue ==
  /\ qpc = "submit"
  /\ jobid = "none"
  /\ jobDoneRegex \in JobDoneRegexes
  /\ out = ""
  /\ wait = 0
  /\ slept = 0
  /\ nPolls = 0
  /\ IdleExecutor
  /\ IdleProject
  /\ IdleGpu
  /\ IdleMpi
  /\ IdleXfer
  /\ IdleView
  /\ IdleGraph

NextQueue ==
  \/ Submit
  \/ Poll

SpecQueue == InitQueue /\ [][NextQueue]_vars

(***************************************************************************)
(* MPIStepExecutor.runSteps and the slaves of utils/mpi.py.                 *)
(*                                                                         *)
(* An MPIStepExecutor is a ThreadStepExecutor with nMPI nodes: its         *)
(* runSteps is the thread-pool loop above followed by the sentinel loop.   *)
(* utils/mpi.py is written with print statements and "except Exception, e":*)
(* an interpreter that rejects that syntax raises SyntaxError at each      *)
(* "from pyworkflow.utils.mpi import ...", in the coordinator and in the    *)
(* slaves.  runJob gives runJobMPI the keywords env, cwd and gpuList, which*)
(* its signature does not have, so a step that calls runJob raises inside  *)
(* its thread (one of the two outcomes of StepThreadRun) and no command is *)
(* sent to a slave by this code.                                           *)
(***************************************************************************)
TAG_RUN_JOB == 1000

\* Outcomes of runCommand in a slave: a return code or str(e).
CommandResults == {0, 1}

\* "from pyworkflow.utils.mpi import TAG_RUN_JOB" after the thread-pool run.
MpiImport ==
  /\ mpiPc = "pool"
  /\ pc = "done"
  /\ IF mpiCompiles
     THEN mpiPc' = "send" /\ mpiNode' = 1
     ELSE mpiPc' = "SyntaxError" /\ mpiNode' = mpiNode
  /\ UNCHANGED <<mpiCompiles, comm, results, slave, sent>>
  /\ UNCHANGED <<execVars, graphVars, projVars, viewVars, gpuVars, queueVars, xferVars>>

\* One pass of "for node in range(1, self.numberOfProcs+1)":
\* self.comm.send('None', dest=node, tag=TAG_RUN_JOB+node).
MpiSend ==
  /\ mpiPc = "send"
  /\ comm' = [comm EXCEPT ![mpiNode] =
                Append(@, [body |-> "None", tag |-> TAG_RUN_JOB + mpiNode])]
  /\ sent' = [sent EXCEPT ![mpiNode] = @ + 1]
  /\ mpiNode' = mpiNode + 1
  /\ mpiPc' = IF mpiNode + 1 > numberOfProcs THEN "returned" ELSE "send"
  /\ UNCHANGED <<mpiCompiles, results, slave>>
  /\ UNCHANGED <<execVars, graphVars, projVars, viewVars, gpuVars, queueVars, xferVars>>

\* runJobMPISlave, one pass of the outer loop: the irecv with tag
\* TAG_RUN_JOB + rank completes; 'None' ends the loop, any other command is
\* run and its result sent back to rank 0.
SlaveRecv(rank) ==
  /\ rank \in DOMAIN slave
  /\ slave[rank] = "recv"
  /\ comm[rank] # <<>>
  /\ Head(comm[rank]).tag = TAG_RUN_JOB + rank
  /\ LET command == Head(comm[rank]).body
     IN IF command = "None"
        THEN slave' = [slave EXCEPT ![rank] = "exited"] /\ results' = results
        ELSE /\ \E result \in CommandResults :
                  results' = [results EXCEPT ![rank] = Append(@, result)]
             /\ slave' = slave
  /\ comm' = [comm EXCEPT ![rank] = Tail(@)]
  /\ UNCHANGED <<mpiCompiles, mpiPc, mpiNode, sent>>
  /\ UNCHANGED <<execVars, graphVars, projVars, viewVars, gpuVars, queueVars, xferVars>>

Slave == \E rank \in 1..MaxThreads : SlaveRecv(rank)

InitMpi ==
  /\ InitRunSteps
  /\ executor = "thread"
  /\ IdleGpu
  /\ IdleQueue
  /\ IdleXfer
  /\ IdleView
  /\ IdleGraph
  /\ mpiCompiles \in BOOLEAN
  /\ mpiPc = "pool"
  /\ mpiNode = 0
  /\ comm = [rank \in 1..numberOfProcs |-> <<>>]
  /\ results = [rank \in 1..numberOfProcs |-> <<>>]
  /\ slave = [rank \in 1..numberOfProcs |->
                IF mpiCompiles THEN "recv" ELSE "SyntaxError"]
  /\ sent = [rank \in 1..numberOfProcs |-> 0]

\* The main thread of rank 0: the thread-pool loop, then the sentinel loop.
Coordinator ==
  \/ Scan
  \/ Notify
  \/ Launch
  \/ StepsCheck
  \/ FinalCheck
  \/ Join
  \/ MpiImport
  \/ MpiSend

NextMpi ==
  \/ Coordinator
  \/ StepThreadRun
  \/ Slave

SpecMpi == InitMpi /\ [][NextMpi]_vars

\* Every thread and every process that can take a step takes one.
SpecMpiFair ==
  /\ SpecMpi
  /\ WF_vars(Coordinator)
  /\ WF_vars(StepThreadRun)
  /\ \A rank \in 1..MaxThreads : WF_vars(SlaveRecv(rank))

(***************************************************************************)
(* Update of a run from its own store: Project._updateProtocol, checkPid   *)
(* and getRuns, on a project holding one run.                              *)
(***************************************************************************)
\* Bounds: the largest modification time of run.db, the largest pid.
MaxTime == 1
MaxPid == 1

\* `if tries == 3`: the attempt after which _updateProtocol gives up.
MaxTries == 3

\* time.sleep(0.5) between two attempts, in milliseconds.
RetrySleepMs == 500

NOT_UPDATED_READ_ONLY == "NOT_UPDATED_READ_ONLY"
NOT_UPDATED_UNNECESSARY == "NOT_UPDATED_UNNECESSARY"
NOT_UPDATED_ERROR == "NOT_UPDATED_ERROR"
PROTOCOL_UPDATED == "PROTOCOL_UPDATED"

\* str(ex) of a failed read of run.db, the message of checkPid, and the
\* message a run that failed by itself left in its run.db.
ReadError == "read error"
ProcessNotFound == "process not found"
RunError == "run error"

\* The project of the run, as one value.
View ==
  [prot |-> protObj, sqlite |-> sqlite, runDb |-> runDb, alive |-> pidAlive,
   ro |-> asReadOnly, cached |-> runsCached]

\* pwprot.isProtocolUpToDate(protocol): run.db was not modified after the
\* last update of the protocol object.
isProtocolUpToDate(p, db) == p.lastUpdate >= db.time

\* protocol.isActive(), protocol.isInteractive()
isActive(p) == p.status \in ACTIVE_STATUS

isInteractive(p) == p.status = STATUS_INTERACTIVE

\* protocol.setFailed(msg)
setFailed(p, msg) == [p EXCEPT !.status = STATUS_FAILED, !.message = msg]

\* Mutation of checkPid: an interactive run is checked as well.
checkPidInteractiveToo(v) ==
  IF v.prot.pid = 0 THEN v
  ELSE IF /\ isActive(v.prot)
          /\ v.prot.local
          /\ ~v.prot.queue
          /\ ~v.alive
       THEN [v EXCEPT !.prot = setFailed(@, ProcessNotFound)]
       ELSE v

\* Project.checkPid
checkPid(v) ==
  IF v.prot.pid = 0 THEN v
  ELSE IF /\ isActive(v.prot)
          /\ ~isInteractive(v.prot)
          /\ v.prot.local
          /\ ~v.prot.queue
          /\ ~v.alive
       THEN [v EXCEPT !.prot = setFailed(@, ProcessNotFound)]
       ELSE v

\* protocol.copy(prot2, copyId=False, excludeInputs=True) and
\* protocol.lastUpdateTimeStamp.set(lastUpdateTime): the object takes the
\* attributes run.db holds, and the modification time of run.db.
rehydrate(v) ==
  [v EXCEPT !.prot =
     [@ EXCEPT !.status = v.runDb.status,
               !.pid = v.runDb.pid,
               !.message = IF v.runDb.status = STATUS_FAILED
                           THEN RunError ELSE "",
               !.lastUpdate = v.runDb.time]]

\* self.mapper.store(protocol) on the row of the run.
storeRun(v) == [v EXCEPT !.sqlite = v.prot]

\* What a call of _updateProtocol leaves: the project, the value returned,
\* the reads of run.db made, the sleeps made, whether the object was copied
\* from run.db.
Ret(v, code, reads, sleeps, copied) ==
  [v |-> v, ret |-> code, reads |-> reads, sleeps |-> sleeps,
   copied |-> copied]

\* Mutation of _updateProtocol: the run is marked FAILED at the first read
\* that fails.
updateProtocolNoRetry(v, tries, checkPids, skipUpdated, failing) ==
  IF v.ro THEN Ret(v, NOT_UPDATED_READ_ONLY, 0, 0, FALSE)
  ELSE IF skipUpdated /\ isProtocolUpToDate(v.prot, v.runDb)
  THEN Ret(v, NOT_UPDATED_UNNECESSARY, 0, 0, FALSE)
  ELSE IF tries \in failing
  THEN Ret(storeRun([v EXCEPT !.prot = setFailed(@, ReadError)]),
           NOT_UPDATED_ERROR, 1, 0, FALSE)
  ELSE LET v1 == rehydrate(v)
           v2 == IF checkPids THEN checkPid(v1) ELSE v1
       IN Ret(storeRun(v2), PROTOCOL_UPDATED, 1, 0, TRUE)

\* Project._updateProtocol(protocol, tries, checkPid, skipUpdatedProtocols);
\* failing holds the attempts at which reading run.db raises.  The retry is
\* called with the default checkPid and skipUpdatedProtocols, and its
\* return value is dropped.
RECURSIVE updateProtocolTries(_, _, _, _, _)
updateProtocolTries(v, tries, checkPids, skipUpdated, failing) ==
  IF v.ro THEN Ret(v, NOT_UPDATED_READ_ONLY, 0, 0, FALSE)
  ELSE IF skipUpdated /\ isProtocolUpToDate(v.prot, v.runDb)
  THEN Ret(v, NOT_UPDATED_UNNECESSARY, 0, 0, FALSE)
  ELSE IF tries \in failing
  THEN IF tries = MaxTries
       THEN Ret(storeRun([v EXCEPT !.prot = setFailed(@, ReadError)]),
                NOT_UPDATED_ERROR, 1, 0, FALSE)
       ELSE LET r == updateProtocolTries(v, tries + 1, FALSE, TRUE, failing)
            IN [r EXCEPT !.ret = PROTOCOL_UPDATED,
                         !.reads = @ + 1,
                         !.sleeps = @ + 1]
  ELSE LET v1 == rehydrate(v)
           v2 == IF checkPids THEN checkPid(v1) ELSE v1
       IN Ret(storeRun(v2), PROTOCOL_UPDATED, 1, 0, TRUE)

\* Project.getRuns(refresh, checkPids): with no cached runs, or on refresh,
\* the run is read from project.sqlite and, when active and not a child,
\* updated from its run.db.
getRunsOfView(v, refresh, checkPids, failing) ==
  IF ~v.cached \/ refresh
  THEN LET v1 == [v EXCEPT !.prot = v.sqlite, !.cached = TRUE]
       IN IF isActive(v1.prot) /\ ~v1.prot.child
          THEN updateProtocolTries(v1, 0, checkPids, TRUE, failing)
          ELSE Ret(v1, "none", 0, 0, FALSE)
  ELSE Ret(v, "none", 0, 0, FALSE)

\* The attempts at which run.db cannot be read: the first k ones.
Failings == {0..(k - 1) : k \in 0..(MaxTries + 1)}

ApplyView(r, call) ==
  /\ protObj' = r.v.prot
  /\ sqlite' = r.v.sqlite
  /\ runsCached' = r.v.cached
  /\ updCall' = call @@ [ret |-> r.ret, reads |-> r.reads,
                         slept |-> r.sleeps * RetrySleepMs,
                         copied |-> r.copied, before |-> protObj,
                         tick |-> 1 - updCall.tick]
  /\ UNCHANGED <<runDb, pidAlive, asReadOnly>>
  /\ UNCHANGED <<execVars, graphVars, projVars, gpuVars, queueVars, mpiVars, xferVars>>

\* A call of _updateProtocol on the run.
UpdateProtocol ==
  \E checkPids \in BOOLEAN, skipUpdated \in BOOLEAN, failing \in Failings :
    ApplyView(updateProtocolTries(View, 0, checkPids, skipUpdated, failing),
              [op |-> "_updateProtocol", checkPid |-> checkPids,
               skip |-> skipUpdated, refresh |-> FALSE, failing |-> failing])

\* A call of checkPid on the run.
CheckPid ==
  ApplyView(Ret(checkPid(View), "none", 0, 0, FALSE),
            [op |-> "checkPid", checkPid |-> TRUE, skip |-> FALSE,
             refresh |-> FALSE, failing |-> {}])

\* A call of getRuns on the project of the run.
GetRuns ==
  \E refresh \in BOOLEAN, checkPids \in BOOLEAN, failing \in Failings :
    ApplyView(getRunsOfView(View, refresh, checkPids, failing),
              [op |-> "getRuns", checkPid |-> checkPids, skip |-> TRUE,
               refresh |-> refresh, failing |-> failing])

\* The process of the run writes its run.db.
RunWrites ==
  /\ pidAlive
  /\ runDb.time < MaxTime
  /\ \E st \in {STATUS_RUNNING, STATUS_INTERACTIVE, STATUS_FINISHED,
                STATUS_FAILED} :
       \E pid \in 1..MaxPid :
         /\ runDb.pid # 0 => pid = runDb.pid
         /\ runDb' = [status |-> st, pid |-> pid, time |-> runDb.time + 1]
  /\ UNCHANGED <<protObj, sqlite, pidAlive, asReadOnly, runsCached, updCall>>
  /\ UNCHANGED <<execVars, graphVars, projVars, gpuVars, queueVars, mpiVars, xferVars>>

\* The process of the run ends or is killed.
ProcessDies ==
  /\ pidAlive
  /\ pidAlive' = FALSE
  /\ UNCHANGED <<protObj, sqlite, runDb, asReadOnly, runsCached, updCall>>
  /\ UNCHANGED <<execVars, graphVars, projVars, gpuVars, queueVars, mpiVars, xferVars>>

\* The attributes of the run: a local run of the project, a run on another
\* host, a run sent to a queue, a run invoked by another protocol.
RunAttrs ==
  {[local |-> TRUE, queue |-> FALSE, child |-> FALSE],
   [local |-> FALSE, queue |-> FALSE, child |-> FALSE],
   [local |-> TRUE, queue |-> TRUE, child |-> FALSE],
   [local |-> TRUE, queue |-> FALSE, child |-> TRUE]}

\* A project just opened on one launched run: the object is the row of
\* project.sqlite; the run's process wrote its pid and status to run.db.
InitView ==
  /\ \E st \in {STATUS_RUNNING, STATUS_INTERACTIVE, STATUS_FINISHED},
        pid \in 0..MaxPid, at \in RunAttrs :
       protObj = [status |-> st, message |-> "", pid |-> pid,
                  lastUpdate |-> 0, local |-> at.local, queue |-> at.queue,
                  child |-> at.child]
  /\ sqlite = protObj
  /\ \E st \in {STATUS_RUNNING, STATUS_FINISHED},
        pid \in 0..MaxPid, tm \in 0..MaxTime :
       /\ protObj.pid # 0 => pid = protObj.pid
       /\ runDb = [status |-> st, pid |-> pid, time |-> tm]
  /\ pidAlive \in BOOLEAN
  /\ asReadOnly \in BOOLEAN
  /\ runsCached = FALSE
  /\ updCall = NoCall
  /\ IdleExecutor
  /\ IdleProject
  /\ IdleGpu
  /\ IdleQueue
  /\ IdleMpi
  /\ IdleXfer
  /\ IdleGraph

NextView ==
  \/ UpdateProtocol
  \/ CheckPid
  \/ GetRuns
  \/ RunWrites
  \/ ProcessDies

SpecView == InitView /\ [][NextView]_vars

(***************************************************************************)
(* The runs graph of a list of runs: Project.getGraphFromRuns.             *)
(***************************************************************************)
\* Bound: the runs of the project.
MaxRuns == 3

GRuns == 1..MaxRuns

\* The objects a pointer can hold: nothing, a run, the output key of a run,
\* an object whose parent is a run, an object whose parent is an output, an
\* object of the project outside the runs.
NoObject == [kind |-> "none", run |-> 0, key |-> ""]

RunObj(r) == [kind |-> "run", run |-> r, key |-> ""]

OutObj(r, k) == [kind |-> "out", run |-> r, key |-> k]

SubRunObj(r) == [kind |-> "subrun", run |-> r, key |-> ""]

SubOutObj(r, k) == [kind |-> "subout", run |-> r, key |-> k]

OtherObj == [kind |-> "other", run |-> 0, key |-> ""]

\* self.mapper.getParent(obj), par giving the parent run of each run.
getParent(o, par) ==
  CASE o.kind = "run" ->
         IF o.run \in DOMAIN par /\ par[o.run] # 0
         THEN RunObj(par[o.run]) ELSE NoObject
    [] o.kind = "out" -> RunObj(o.run)
    [] o.kind = "subrun" -> RunObj(o.run)
    [] o.kind = "subout" -> OutObj(o.run, o.key)
    [] OTHER -> NoObject

\* A pointer: the object held (getObjValue()) and the extended path.
Pointer(o, ext) == [to |-> o, ext |-> ext]

\* attr.hasValue()
hasValue(pt) == pt.to # NoObject

\* The pointers r.iterInputAttributes() yields for the input attributes inp
\* of a run: the pointer of each attribute, each element of a list.
inputPointers(inp) ==
  UNION {{inp[i].ptrs[j] : j \in DOMAIN inp[i].ptrs} : i \in DOMAIN inp}

\* outputDict.get(id): the run of the list rs that registered the object o,
\* as itself or as one of its outputs; 0 when none did.
outputDict(o, rs) ==
  IF o.kind \in {"run", "out"} /\ o.run \in Range(rs) THEN o.run ELSE 0

\* _checkInputAttr(node, pointed): the pointed object is registered by a
\* node other than node, which becomes a parent of node.
checkInputAttr(node, pointed, rs) ==
  /\ pointed # NoObject
  /\ outputDict(pointed, rs) # 0
  /\ outputDict(pointed, rs) # node

\* Mutation of parentNode: the parent of the pointed object is not looked at.
parentNodeOfPointedOnly(node, pointed, rs, par) ==
  IF checkInputAttr(node, pointed, rs) THEN outputDict(pointed, rs) ELSE 0

\* The node that the loop over the inputs makes a parent of node for a valued
\* pointer: the one of the pointed object, else the one of its parent;
\* 0 when neither is registered.
parentNode(node, pointed, rs, par) ==
  IF checkInputAttr(node, pointed, rs)
  THEN outputDict(pointed, rs)
  ELSE IF checkInputAttr(node, getParent(pointed, par), rs)
       THEN outputDict(getParent(pointed, par), rs)
       ELSE 0

\* Project.getGraphFromRuns(runs), inp giving the inputs of each run: the
\* nodes, the edges, the children of the root PROJECT.
getGraphFromRuns(rs, inp, par) ==
  LET nodes == Range(rs)
      edges ==
        {e \in nodes \X nodes :
           \E pt \in inputPointers(inp[e[2]]) :
             hasValue(pt) /\ parentNode(e[2], pt.to, rs, par) = e[1]}
  IN [built |-> TRUE, nodes |-> nodes, edges |-> edges,
      rootChilds |-> {n \in nodes : ~\E e \in edges : e[2] = n}]

\* The lists of distinct runs.
RunLists ==
  UNION {{l \in [1..k -> GRuns] : \A i, j \in 1..k : i # j => l[i] # l[j]} :
           k \in 0..MaxRuns}

\* The objects the input pointers of the graphs below hold.
GraphObjects ==
  {NoObject, OtherObj}
    \cup {RunObj(r) : r \in GRuns}
    \cup {OutObj(r, "a") : r \in GRuns}
    \cup {SubRunObj(r) : r \in GRuns}
    \cup {SubOutObj(r, "a") : r \in GRuns}

\* The inputs of a run of the graphs below: none, or one pointer.
GraphInputs ==
  {<<>>} \cup {<<[kind |-> "pointer", ptrs |-> <<Pointer(o, "")>>]>> :
                 o \in GraphObjects}

\* A project of MaxRuns runs, run 2 a child of run 1 or not, and a list of
\* its runs.
InitGraph ==
  /\ argRuns \in RunLists
  /\ parentOf \in {[r \in GRuns |-> 0],
                   [r \in GRuns |-> IF r = 2 THEN 1 ELSE 0]}
  /\ ins \in [GRuns -> GraphInputs]
  /\ dag = NoGraph
  /\ clones = NoClones
  /\ IdleExecutor
  /\ IdleProject
  /\ IdleGpu
  /\ IdleQueue
  /\ IdleMpi
  /\ IdleXfer
  /\ IdleView

\* A call of getGraphFromRuns on the list.
GetGraphFromRuns ==
  /\ ~dag.built
  /\ dag' = getGraphFromRuns(argRuns, ins, parentOf)
  /\ UNCHANGED <<argRuns, parentOf, ins, clones>>
  /\ UNCHANGED <<execVars, projVars, gpuVars, queueVars, mpiVars, xferVars,
                 viewVars>>

SpecGraph == InitGraph /\ [][GetGraphFromRuns]_vars

(***************************************************************************)
(* The copy of a list of runs: Project.copyProtocol.                       *)
(***************************************************************************)
\* The output attributes of a run.
OutKeys == {"a", "b"}

\* The id of the clone __cloneProtocol makes of the run r.
cloneId(r) == r + MaxRuns

\* iAttr.get(): the object the pointer leads to, through its extended path.
pointerGet(pt) ==
  IF pt.to.kind = "run" /\ pt.ext # ""
  THEN OutObj(pt.to.run, pt.ext) ELSE pt.to

\* childNode.run.iterInputAttributes(), from the attribute i on: the pairs
\* of an attribute key and a pointer, a list giving one pair per element.
RECURSIVE iterInputAttributes(_, _)
iterInputAttributes(inp, i) ==
  IF i > Len(inp) THEN <<>>
  ELSE [j \in 1..Len(inp[i].ptrs) |-> [key |-> i, ptr |-> inp[i].ptrs[j]]]
         \o iterInputAttributes(inp, i + 1)

\* The matches __getIOMatches appends for one pair: the extended path when
\* the pointer holds the run s, else the key of the output of s it leads to.
matchesOf(s, item) ==
  IF item.ptr.to = RunObj(s)
  THEN <<[oKey |-> item.ptr.ext, iKey |-> item.key]>>
  ELSE LET pointed == pointerGet(item.ptr)
       IN IF pointed.kind = "out" /\ pointed.run = s /\ pointed.key \in OutKeys
          THEN <<[oKey |-> pointed.key, iKey |-> item.key]>>
          ELSE <<>>

\* Project.__getIOMatches(node, childNode) on the pairs from the k-th on.
RECURSIVE getIOMatches(_, _, _)
getIOMatches(s, items, k) ==
  IF k > Len(items) THEN <<>>
  ELSE matchesOf(s, items[k]) \o getIOMatches(s, items, k + 1)

\* The element the loop `for p in childPointer` leaves in childPointer: the
\* last one whose getObjValue() is the run; 0 when there is none.
lastPointing(ptrs, prot) ==
  LET hits == {j \in DOMAIN ptrs : ptrs[j].to = RunObj(prot)}
  IN IF hits = {} THEN 0 ELSE CHOOSE j \in hits : \A h \in hits : h <= j

\* childPointer.set(newProt); childPointer.setExtended(oKey) on the input
\* attribute of the clone: on the pointer itself, on the pointer a scalar
\* holds, on the element of a list picked by the loop.  The lists of the
\* copies below always hold an element whose getObjValue() is the run.
rePoint(attr, oKey, prot) ==
  LET np == Pointer(RunObj(cloneId(prot)), oKey)
  IN IF attr.kind = "list"
     THEN LET j == lastPointing(attr.ptrs, prot)
          IN IF j = 0 THEN attr ELSE [attr EXCEPT !.ptrs[j] = np]
     ELSE [attr EXCEPT !.ptrs = <<np>>]

\* `for oKey, iKey in matches` on the inputs of the clone of the child.
RECURSIVE applyMatches(_, _, _, _)
applyMatches(cinp, ms, k, prot) ==
  IF k > Len(ms) THEN cinp
  ELSE applyMatches([cinp EXCEPT ![ms[k].iKey] = rePoint(@, ms[k].oKey, prot)],
                    ms, k + 1, prot)

\* `for childNode in node.getChilds()`: the clones of the children that are
\* in the list get their matching inputs pointed at the clone of prot.
RECURSIVE copyChilds(_, _, _, _, _)
copyChilds(cl, prot, childs, k, inp) ==
  IF k > Len(childs) THEN cl
  ELSE LET c == childs[k]
           cl1 == IF c \in DOMAIN cl
                  THEN [cl EXCEPT ![c] =
                          applyMatches(@, getIOMatches(prot,
                                            iterInputAttributes(inp[c], 1), 1),
                                       1, prot)]
                  ELSE cl
       IN copyChilds(cl1, prot, childs, k + 1, inp)

\* The second loop `for prot in protocol` of copyProtocol, from the k-th run
\* of the list on, g being the runs graph.
RECURSIVE copyEach(_, _, _, _, _)
copyEach(cl, list, k, g, inp) ==
  IF k > Len(list) THEN cl
  ELSE LET prot == list[k]
           childs == SortedSeq({c \in g.nodes : <<prot, c>> \in g.edges})
       IN copyEach(copyChilds(cl, prot, childs, 1, inp), list, k + 1, g, inp)

\* Project.copyProtocol(list): each run is cloned with its input pointers
\* and without outputs, then the inputs of the clones are rewired along the
\* edges of the runs graph.
copyProtocol(list, inp, par) ==
  LET g == getGraphFromRuns(SortedSeq({r \in GRuns : par[r] = 0}), inp, par)
      cl0 == [r \in Range(list) |-> inp[r]]
      cl == copyEach(cl0, list, 1, g, inp)
  IN [made |-> TRUE,
      of |-> [r \in Range(list) |-> [ins |-> cl[r], outs |-> {}]]]

\* The pointers the inputs of the run r hold in the copies below: a run
\* before r or one of its outputs.
CopyPointers(r) ==
  {Pointer(RunObj(q), k) : q \in 1..(r - 1), k \in OutKeys}
    \cup {Pointer(OutObj(q, k), "") : q \in 1..(r - 1), k \in OutKeys}

\* The elements of its lists: pointers holding a run before r.
CopyElements(r) == {Pointer(RunObj(q), k) : q \in 1..(r - 1), k \in OutKeys}

\* The inputs of the run r: none, a pointer, a scalar holding a pointer, or
\* a list of one or two elements.
CopyInputs(r) ==
  {<<>>}
    \cup {<<[kind |-> kd, ptrs |-> <<pt>>]>> :
            kd \in {"pointer", "scalar"}, pt \in CopyPointers(r)}
    \cup {<<[kind |-> "list", ptrs |-> <<pt>>]>> : pt \in CopyElements(r)}
    \cup {<<[kind |-> "list", ptrs |-> <<p1, p2>>]>> :
            p1 \in CopyElements(r), p2 \in CopyElements(r)}

\* A project of MaxRuns finished runs, none a child, each with inputs from
\* the runs before it, and a list of its runs.
InitCopy ==
  /\ argRuns \in RunLists
  /\ parentOf = [r \in GRuns |-> 0]
  /\ \E f \in [GRuns -> UNION {CopyInputs(r) : r \in GRuns}] :
       /\ \A r \in GRuns : f[r] \in CopyInputs(r)
       /\ ins = f
  /\ dag = NoGraph
  /\ clones = NoClones
  /\ IdleExecutor
  /\ IdleProject
  /\ IdleGpu
  /\ IdleQueue
  /\ IdleMpi
  /\ IdleXfer
  /\ IdleView

\* A call of copyProtocol on the list.
CopyProtocol ==
  /\ ~clones.made
  /\ clones' = copyProtocol(argRuns, ins, parentOf)
  /\ UNCHANGED <<argRuns, parentOf, ins, dag>>
  /\ UNCHANGED <<execVars, projVars, gpuVars, queueVars, mpiVars, xferVars,
                 viewVars>>

SpecCopy == InitCopy /\ [][CopyProtocol]_vars

(***************************************************************************)
(* Claims on the step executors.                                           *)
(***************************************************************************)
isEnded(s) == s.status \in {STATUS_FINISHED, STATUS_FAILED}

\* C1: in the serial and in the thread-pool runSteps a step is set RUNNING,
\* and its stepStartedCallback fired, only in a step of the program taken
\* from a state where the step is NEW and every step named in its
\* prerequisites is FINISHED.
C1_StartOnlyWhenRunnable ==
  [][\A i \in DOMAIN steps :
       (\/ (isRunning(steps'[i]) /\ ~isRunning(steps[i]))
        \/ nStarted'[i] # nStarted[i])
       => /\ steps[i].status = STATUS_NEW
          /\ \A j \in steps[i].prerequisites : isFinished(steps[j])
          /\ isRunning(steps'[i])
          /\ nStarted'[i] = nStarted[i] + 1]_vars

\* A step with prerequisites has been started and is running.
C1_Witness ==
  \E i \in DOMAIN steps :
    /\ steps[i].prerequisites # {}
    /\ isRunning(steps[i])
    /\ nStarted[i] = 1

\* C2: when ThreadStepExecutor.runSteps has returned and no
\* stepFinishedCallback returned false, every step of the list is FINISHED
\* or FAILED (none is left NEW or RUNNING).
C2_AllStepsEnded ==
  (executor = "thread" /\ pc = "done" /\ doContinue)
    => \A i \in DOMAIN steps : isEnded(steps[i])

(***************************************************************************)
(* Claims on the project operations.                                       *)
(***************************************************************************)
\* A step of the specification that is a Project call.
Call == nOps' = nOps + 1

CallOf(ops) == Call /\ lastOp'.op \in ops

\* The project as the getRunsGraph() call of the modification check leaves
\* it: the cached graph, or the graph built (and the active runs refreshed
\* from their run.db) when none is cached.
Seen == getRunsGraph(Cur, FALSE)

\* Q is a child of P in the runs graph and is neither SAVED nor SCHEDULED.
BlockingChild(s, P, Q) ==
  /\ Q \in getChilds(s.runsGraph.nodes, P)
  /\ s.status[Q] \notin {STATUS_SAVED, STATUS_SCHEDULED}

\* The call stored and deleted nothing and left the protocols ps as s has
\* them.
NothingDone(s, ps) ==
  /\ mapper' = s.mapper
  /\ relations' = s.relations
  /\ outputs' = s.outputs
  /\ deleted' = s.deleted
  /\ \A p \in ps : status'[p] = s.status[p] /\ workDir'[p] = s.workDir[p]

NoSaveStatus == {STATUS_RUNNING, STATUS_FINISHED, STATUS_LAUNCHED}

\* C4 as stated: saveProtocol of a RUNNING, FINISHED or LAUNCHED protocol
\* raises ModificationNotAllowedException and changes neither the status nor
\* the store; on a writable project, in any other status and with no
\* blocking dependent, the protocol becomes SAVED and is stored.
C4_AsStated ==
  [][\A p \in Prots :
       (CallOf({"saveProtocol"}) /\ lastOp'.protocols = {p})
       => /\ Seen.status[p] \in NoSaveStatus
               => /\ lastOp'.result = ModificationNotAllowed
                  /\ NothingDone(Seen, {p})
          /\ (/\ ~readOnly
              /\ Seen.status[p] \notin NoSaveStatus
              /\ getProtocolsDependencies(Seen, {p}) = {})
               => /\ lastOp'.result = OK
                  /\ status'[p] = STATUS_SAVED
                  /\ mapper'[p] = STATUS_SAVED]_vars

\* C4 amended: as C4, on a project that is not read-only; on a read-only
\* project saveProtocol raises the read-only exception, whatever the status,
\* and changes nothing.
C4_SaveRefusedWhenRunFinishedLaunched ==
  [][\A p \in Prots :
       (CallOf({"saveProtocol"}) /\ lastOp'.protocols = {p})
       => /\ readOnly
               => /\ lastOp'.result = ReadOnlyError
                  /\ NothingDone(Cur, {p})
          /\ (~readOnly /\ Seen.status[p] \in NoSaveStatus)
               => /\ lastOp'.result = ModificationNotAllowed
                  /\ NothingDone(Seen, {p})
          /\ (/\ ~readOnly
              /\ Seen.status[p] \notin NoSaveStatus
              /\ getProtocolsDependencies(Seen, {p}) = {})
               => /\ lastOp'.result = OK
                  /\ status'[p] = STATUS_SAVED
                  /\ mapper'[p] = STATUS_SAVED]_vars

\* saveProtocol of a RUNNING protocol without dependents has been refused.
C4_Witness ==
  /\ lastOp.op = "saveProtocol"
  /\ lastOp.result = ModificationNotAllowed
  /\ \E p \in Prots :
       /\ lastOp.protocols = {p}
       /\ status[p] = STATUS_RUNNING
       /\ getProtocolsDependencies(Cur, {p}) = {}
       /\ runsGraph.built

\* C5: launchProtocol on a read-only project fails with the read-only error,
\* the status of no protocol changed and no launcher function called.
C5_LaunchFailsReadOnly ==
  [][(CallOf({"launchProtocol"}) /\ readOnly)
       => /\ lastOp'.result = ReadOnlyError
          /\ lastOp'.called = "none"
          /\ status' = status]_vars

\* C6: on a read-only project saveProtocol, deleteProtocol, scheduleProtocol,
\* stopProtocol and resetProtocol fail and change neither the store, nor the
\* status of the protocol in memory, nor its working directory.
C6_ReadOnlyMutationsFail ==
  [][(/\ CallOf({"saveProtocol", "deleteProtocol", "scheduleProtocol",
                 "stopProtocol", "resetProtocol"})
      /\ readOnly)
       => /\ lastOp'.result # OK
          /\ NothingDone(Cur, lastOp'.protocols)]_vars

\* C7: resetProtocol(P), and scheduleProtocol(P) in run mode RESTART, fail
\* and leave the status, the working directory and the relations of P
\* unchanged when P has a runs-graph child, not passed to the call, that is
\* neither SAVED nor SCHEDULED.
C7_ResetRestartBlockedByDependents ==
  [][\A P, Q \in Prots :
       (/\ \/ CallOf({"resetProtocol"})
           \/ CallOf({"scheduleProtocol"}) /\ runMode[P] = MODE_RESTART
        /\ lastOp'.protocols = {P}
        /\ Q # P
        /\ BlockingChild(Seen, P, Q))
       => /\ lastOp'.result # OK
          /\ status'[P] = status[P]
          /\ workDir'[P] = workDir[P]
          /\ relations' = relations]_vars

\* The outputs of every protocol Q takes an input from are present.
OutputsPresent(Q) == \A P \in inputs[Q] : P \in outputs

TableRow(op, from, to) ==
  \/ op = "saveProtocol"
       /\ from \in {STATUS_NEW, STATUS_SAVED} /\ to = STATUS_SAVED
  \/ to = STATUS_SCHEDULED
       /\ from \in {STATUS_NEW, STATUS_SAVED, STATUS_FINISHED, STATUS_FAILED,
                    STATUS_ABORTED}
  \/ op = "launchProtocol"
       /\ from = STATUS_SCHEDULED /\ to = STATUS_LAUNCHED
  \/ op = "continueProtocol"
       /\ from = STATUS_INTERACTIVE /\ to = STATUS_LAUNCHED
  \/ op = "stopProtocol"
       /\ from = STATUS_RUNNING /\ to = STATUS_ABORTED
  \/ op = "resetProtocol" /\ to = STATUS_SAVED

StatusOps ==
  {"saveProtocol", "scheduleProtocol", "launchProtocol", "stopProtocol",
   "resetProtocol", "continueProtocol"}

StoredRuns(s) == {p \in Prots : s.mapper[p] # NoObj}

\* The entries of a map that are not interactive, in the order of the map.
RECURSIVE scheduledEntries(_, _)
scheduledEntries(map, interactive) ==
  IF map = <<>> THEN <<>>
  ELSE IF Head(map).id \in interactive
       THEN scheduledEntries(Tail(map), interactive)
       ELSE <<[id |-> Head(map).id,
               initialSleepTime |-> Head(map).level * INITIAL_SLEEP_TIME]>>
            \o scheduledEntries(Tail(map), interactive)

\* The last call was launchWorkflow in RESTART mode, and no call it made
\* raised.
RestartedWorkflow ==
  /\ lastOp.op = "launchWorkflow"
  /\ lastOp.mode = MODE_RESTART
  /\ lastOp.result = OK

\* What launchWorkflow in RESTART mode does to each entry: one
\* scheduleProtocol call per non-interactive entry, made in the order of
\* the map with initialSleepTime = level * INITIAL_SLEEP_TIME and run mode
\* RESTART; interactive entries SAVED and not scheduled.
RestartedEachEntry ==
  /\ lastOp.calls = scheduledEntries(lastOp.map, lastOp.interactive)
  /\ \A i \in DOMAIN lastOp.map :
       LET p == lastOp.map[i].id
       IN /\ runMode[p] = MODE_RESTART
          /\ p \in lastOp.interactive => status[p] = STATUS_SAVED
          /\ p \notin lastOp.interactive => proc[p] = "sched"

C13_RestartDropsRelations ==
  [][\A P \in Prots :
       (/\ Call
        /\ lastOp'.op = "launchWorkflow"
        /\ lastOp'.mode = MODE_RESTART
        /\ lastOp'.result = OK
        /\ P \in mapKeys(lastOp'.map) \ lastOp'.interactive
        /\ getRunsGraph(Cur, FALSE).status[P] = STATUS_FINISHED)
       => /\ P \notin relations'
          /\ workDir'[P] = "clean"
          /\ getChilds(StoredRuns(Cur), P) \subseteq
               getChilds(getRunsGraph([Cur EXCEPT !.mapper = mapper',
                                                  !.status = status'],
                                      TRUE).runsGraph.nodes, P)]_vars

\* C14: the graph getRunsGraph() returns has no directed cycle among the
\* run nodes.
C14_RunsGraphAcyclic == runsGraph.built => Acyclic(runsGraph.nodes)

(***************************************************************************)
(* Claims on the runs graph.                                               *)
(***************************************************************************)
\* C15: after a saveProtocol or deleteProtocol call that went through, the
\* graph the next getRunsGraph() call without refresh returns has exactly
\* the stored runs as nodes, as a graph freshly built from the store has.
C15_CachedGraphNeverStale ==
  (/\ lastOp.op \in {"saveProtocol", "deleteProtocol"}
   /\ lastOp.result = OK)
    => getRunsGraph(Cur, FALSE).runsGraph.nodes = StoredRuns(Cur)

(***************************************************************************)
(* Claims on the GPU assignment.                                           *)
(***************************************************************************)
GpuCase == gpuBuilt /\ Len(gpuListArg) >= 1

GpuUnion == UNION {Range(gpuDict[i]) : i \in DOMAIN gpuDict}

\* C16 as stated: for N >= 1 threads and K >= 1 configured GPUs the union of
\* the slices of the workers 0..N-1 contains every configured GPU.
C16_AsStated == GpuCase => Range(gpuListArg) \subseteq GpuUnion

\* C16: every worker 0..N-1 has a slice, and the union of the slices is the
\* set of the first N*floor(K/N) configured GPUs when K > N (the last K mod N
\* are assigned to nobody) and the whole configured list when K <= N.
C16_UnionIsAssignedPrefix ==
  GpuCase =>
    LET K == Len(gpuListArg)
        N == nThreads
        kept == IF K > N THEN N * (K \div N) ELSE K
    IN /\ DOMAIN gpuDict = 0..(N - 1)
       /\ GpuUnion = Range(SubSeq(gpuListArg, 1, kept))

C16_Witness ==
  /\ gpuBuilt
  /\ gpuListArg = <<0, 1, 2, 3, 4>>
  /\ nThreads = 2
  /\ GpuUnion = {0, 1, 2, 3}

ClaimedSlice(i) ==
  LET K == Len(gpuListArg)
      N == nThreads
      c == K \div N
  IN IF K > N THEN SubSeq(gpuListArg, i * c + 1, (i + 1) * c)
     ELSE <<gpuListArg[(i % K) + 1]>>

\* C17: with N threads and a GPU list g of length K, worker i gets the
\* consecutive slice g[i*floor(K/N) .. (i+1)*floor(K/N)-1] when K > N and the
\* single GPU g[i mod K] when K <= N, and getGpuList() called from the thread
\* of node i returns that slice.
C17_GpuSlices ==
  GpuCase =>
    /\ \A i \in 0..(nThreads - 1) :
         i \in DOMAIN gpuDict /\ gpuDict[i] = ClaimedSlice(i)
    /\ gpuGot.thId >= 0 => gpuGot.gpus = ClaimedSlice(gpuGot.thId)

C17_Witness ==
  /\ gpuListArg = <<0, 1, 2, 3, 4>>
  /\ nThreads = 2
  /\ gpuGot = [thId |-> 1, gpus |-> <<2, 3>>]

(***************************************************************************)
(* Claims on the queue executor.                                           *)
(***************************************************************************)
\* Number of sleeps made by runJob so far.
Sleeps == IF qpc = "returned" THEN nPolls - 1 ELSE nPolls

\* C18: in runJob the n-th sleep between polls lasts min(3n, 300) seconds:
\* 3 s after the first poll, 3 s more after each further poll, never less
\* than the one before and never more than 300 s.
C18_PollBackoff ==
  (qpc \in {"polling", "returned"} /\ Sleeps >= 1) =>
    /\ slept = Min(3 * Sleeps, 300)
    /\ wait = Min(3 * (Sleeps + 1), 300)

C18_Witness ==
  /\ qpc = "polling"
  /\ nPolls = 101
  /\ slept = 300
  /\ wait = 300

PollFinished ==
  \/ out = ""
  \/ ~jobDoneRegex.isNone /\ search(jobDoneRegex, out)

\* C19: runJob goes on polling while the last poll reported RUNNING and
\* returns at the first poll that reports FINISHED; a poll reports FINISHED
\* iff the output is empty or a job-done regex is configured and matches it;
\* without a regex every non-empty output counts as RUNNING.
C19_PollUntilFinished ==
  /\ qpc = "returned" => PollFinished
  /\ (qpc = "polling" /\ nPolls >= 1) => ~PollFinished
  /\ (nPolls >= 1 /\ jobDoneRegex.isNone /\ out # "") => qpc = "polling"

C19_Witness ==
  /\ qpc = "returned"
  /\ nPolls >= 2
  /\ out # ""
  /\ Cardinality(jobDoneRegex.matches) = 1

(***************************************************************************)
(* Claims on the MPI executor.                                             *)
(***************************************************************************)
PoolRunDone == mpiPc = "pool" /\ pc = "done"

SentinelsDelivered ==
  \A rank \in 1..numberOfProcs : sent[rank] = 1 /\ slave[rank] = "exited"

\* At most one 'None' per rank, tagged TAG_RUN_JOB + rank, and none while a
\* worker thread is alive.
SentinelSafety ==
  \A rank \in DOMAIN sent :
    /\ sent[rank] <= 1
    /\ sent[rank] >= 1 => threads = {} /\ pc = "done"
    /\ \A k \in DOMAIN comm[rank] :
         comm[rank][k] = [body |-> "None", tag |-> TAG_RUN_JOB + rank]

\* C20: once MPIStepExecutor.runSteps has finished the thread-pool run, the
\* coordinator sends 'None' exactly once to each rank 1..N with tag
\* TAG_RUN_JOB + rank, only after all worker threads have ended, and every
\* slave eventually receives it and leaves its loop.
C20_SentinelEndsSlaves ==
  /\ []SentinelSafety
  /\ PoolRunDone ~> SentinelsDelivered

(***************************************************************************)
(* Claims on the export and import of workflows.                           *)
(***************************************************************************)
Exported == Range(exportList)

\* The new protocol made for an exported protocol.
NewOf(p) == target.newDict[ToString(p)]

\* The pointers of an imported protocol that point to something.
PointersOf(n) ==
  ({target.prots[n].pointer} \cup Range(target.prots[n].list)) \ {NonePointer}

\* One new protocol per exported protocol, with fresh ids; its pointers are
\* those of the original to exported protocols, retargeted with the same
\* output key, and its prerequisites those among the exported, remapped.
RoundTrip ==
  /\ DOMAIN target.newDict = {ToString(p) : p \in Exported}
  /\ Cardinality(DOMAIN target.prots) = Cardinality(Exported)
  /\ \A p \in Exported :
       /\ NewOf(p) \in DOMAIN target.prots
       /\ NewOf(p) > target.last - Len(exportList)
       /\ \A r \in Exported : r # p => NewOf(r) # NewOf(p)
       /\ PointersOf(NewOf(p)) =
            {[target |-> NewOf(r), extended |-> keyOf(r)] :
               r \in inputs[p] \cap Exported}
       /\ target.prots[NewOf(p)].prerequisites =
            {NewOf(r) : r \in prerequisites[p] \cap Exported}

\* C12: exporting a list of protocols with exportProtocols and importing the
\* file with loadProtocols yields one new protocol per exported protocol,
\* with fresh ids, whose pointers (plain or in a pointer list) target the new
\* protocol of their original source with the same output key and whose
\* prerequisites are remapped: the runs graph of the new protocols is
\* isomorphic to the one induced on the exported list.
C12_ExportImportIsomorphic ==
  /\ exportResult # "none" => exportResult = OK
  /\ target.loaded => RoundTrip

(***************************************************************************)
(* Claims on the aggregate workflow calls.                                 *)
(***************************************************************************)
\* The protocols on which the last launchWorkflow call made a
\* scheduleProtocol call that raised.
FailedSchedules ==
  {p \in lastOp.failing : \E i \in DOMAIN lastOp.calls : lastOp.calls[i].id = p}

\* The protocols of the last stopWorkFlow call whose stopProtocol raised.
FailedStops ==
  {p \in lastOp.raising : lastOp.before.status[p] \in ACTIVE_STATUS}

\* C21: launchWorkflow and stopWorkFlow never raise because of a failure on
\* one protocol: the returned list holds an entry for every protocol whose
\* operation failed, and stopWorkFlow calls stopProtocol on every protocol
\* of its list, also after a failure.
C21_FailuresAreReturned ==
  /\ lastOp.op = "launchWorkflow"
       => /\ lastOp.result # ScheduleError
          /\ FailedSchedules \subseteq Range(lastOp.errors)
  /\ lastOp.op = "stopWorkFlow"
       => /\ lastOp.result # StopError
          /\ lastOp.attempted = SortedSeq(lastOp.protocols)
          /\ Range(lastOp.errors) = FailedStops
          /\ Len(lastOp.errors) = Cardinality(FailedStops)

\* The last call was launchWorkflow in RESUME mode.
ResumedWorkflow ==
  lastOp.op = "launchWorkflow" /\ lastOp.mode = MODE_RESUME

\* Entry i of the map of the last call is neither interactive nor works in
\* streaming.
NotStreaming(i) ==
  lastOp.map[i].id \notin lastOp.interactive \cup lastOp.streaming

\* Entry i of the map ends the loop of _continueWorkflow: a level 0 entry
\* not in streaming, or a streaming entry whose scheduleProtocol raised.
EndsResume(i) ==
  \/ NotStreaming(i) /\ lastOp.map[i].level = 0
  \/ lastOp.map[i].id \in lastOp.streaming \cap lastOp.failing

\* The loop of _continueWorkflow got to entry i.
ResumeReached(i) == \A j \in 1..(i - 1) : ~EndsResume(j)

\* Protocol p was scheduled by the last call.
ScheduledByCall(p) == \E k \in DOMAIN lastOp.calls : lastOp.calls[k].id = p

\* The last call left protocol p as it was.
UntouchedByCall(p) ==
  /\ ~ScheduledByCall(p)
  /\ status[p] = lastOp.before.status[p]
  /\ mapper[p] = lastOp.before.mapper[p]
  /\ runMode[p] = lastOp.before.runMode[p]
  /\ proc[p] = lastOp.before.proc[p]

\* C30: in launchWorkflow RESUME mode a reached level 0 entry that is not
\* interactive and does not work in streaming gets a "not in streaming"
\* error in the returned list, is not scheduled, and no later entry of the
\* map is processed; a reached entry not in streaming of another level is
\* restarted through _restartWorkflow (run mode RESTART, scheduleProtocol
\* with its sleep time) and the entries after it are processed.
C30_ResumeNotInStreaming ==
  ResumedWorkflow =>
    \A i \in DOMAIN lastOp.map :
      LET e == lastOp.map[i]
      IN (NotStreaming(i) /\ ResumeReached(i)) =>
           IF e.level = 0
           THEN /\ e.id \in Range(lastOp.errors)
                /\ \A j \in i..Len(lastOp.map) :
                     UntouchedByCall(lastOp.map[j].id)
           ELSE /\ runMode[e.id] = MODE_RESTART
                /\ [id |-> e.id,
                    initialSleepTime |-> e.level * INITIAL_SLEEP_TIME]
                     \in Range(lastOp.calls)
                /\ e.id \notin lastOp.failing => proc[e.id] = "sched"
                /\ e.id \in lastOp.failing => e.id \in Range(lastOp.errors)
                /\ \A j \in (i + 1)..Len(lastOp.map) :
                     (/\ lastOp.map[j].id \notin lastOp.interactive
                      /\ ResumeReached(j))
                       => ScheduledByCall(lastOp.map[j].id)

\* A workflow of three FINISHED protocols was resumed from a protocol that
\* does not work in streaming: one error, nothing scheduled.
C30_Witness ==
  /\ ResumedWorkflow
  /\ Len(lastOp.map) = 3
  /\ NotStreaming(1)
  /\ lastOp.map[1].level = 0
  /\ lastOp.errors = <<lastOp.map[1].id>>
  /\ lastOp.calls = <<>>
  /\ \A p \in Prots : lastOp.before.status[p] = STATUS_FINISHED
                        /\ status[p] = STATUS_FINISHED

(***************************************************************************)
(* Claims on the modification check and on launchProtocol.                 *)
(***************************************************************************)
\* Q is a descendant of P in the runs graph and is neither SAVED nor
\* SCHEDULED.
BlockingDescendant(s, P, Q) ==
  /\ Q \in Descendants(s.runsGraph.nodes, P, MaxProt)
  /\ s.status[Q] \notin {STATUS_SAVED, STATUS_SCHEDULED}

LaunchRefused(o, p) ==
  /\ o.result = checkModificationAllowed(Cur, {p}).err
  /\ o.called = "none"
  /\ o.s.status[p] = Seen.status[p]
  /\ o.s.mapper = Seen.mapper

\* launchProtocol(p) went on to the launcher.
LaunchedOn(o) == o.result = OK /\ o.called = "launch"

\* The check of launchProtocol(p), made when checked holds, decides the
\* call: refused when the check fails, launched otherwise.
CheckDecides(o, p, checked) ==
  IF checked /\ checkModificationAllowed(Cur, {p}).err # OK
  THEN LaunchRefused(o, p) ELSE LaunchedOn(o)

\* C25 as stated: launchProtocol that does not fall back to scheduling
\* makes the modification check exactly when force is False and the
\* protocol is neither interactive nor in streaming, whatever its run mode;
\* a failed check leaves the status and calls no launcher.
C25_AsStated ==
  \A p \in Live :
    \A scheduled, force, interactive, inStreaming, jobOk \in BOOLEAN :
      (prerequisites[p] = {} \/ scheduled)
        => CheckDecides(launchProtocolOp(Cur, p, scheduled, force,
                                         interactive, inStreaming, jobOk,
                                         FALSE, STATUS_FINISHED),
                        p, ~force /\ ~interactive /\ ~inStreaming)

\* C25 amended: the check is made exactly when force is False and either
\* the protocol is neither interactive nor in streaming or its run mode is
\* RESTART; a failed check leaves the status and calls no launcher.
C25_CheckUnlessForced ==
  \A p \in Live :
    \A scheduled, force, interactive, inStreaming, jobOk \in BOOLEAN :
      (prerequisites[p] = {} \/ scheduled)
        => CheckDecides(launchProtocolOp(Cur, p, scheduled, force,
                                         interactive, inStreaming, jobOk,
                                         FALSE, STATUS_FINISHED),
                        p, ~force /\ ((~interactive /\ ~inStreaming)
                                       \/ runMode[p] = MODE_RESTART))

\* launchProtocol(1) was refused with ModificationNotAllowedException on
\* the chain whose protocol 2 is FINISHED; 1 is still FINISHED.
C25_Witness ==
  /\ lastOp.op = "launchProtocol"
  /\ lastOp.protocols = {1}
  /\ lastOp.result = ModificationNotAllowed
  /\ lastOp.called = "none"
  /\ lastOp.from = STATUS_FINISHED
  /\ status[1] = STATUS_FINISHED
  /\ status[2] = STATUS_FINISHED
  /\ proc[1] = "none"

\* launchProtocol(p) fell back to scheduleProtocol: p is SCHEDULED, the
\* scheduler was started and the launcher was not called.
FellBack(o, p) ==
  /\ o.result = OK
  /\ o.called = "schedule"
  /\ o.s.status[p] = STATUS_SCHEDULED
  /\ o.s.proc[p] = "sched"

\* launchProtocol(p) launched p, which is LAUNCHED.
LaunchedDirectly(o, p) ==
  /\ LaunchedOn(o)
  /\ o.s.status[p] = STATUS_LAUNCHED
  /\ o.s.proc[p] = "start"

\* A prerequisite of p is still active.
ActivePrerequisite(p) ==
  \E q \in prerequisites[p] : status[q] \in ACTIVE_STATUS

\* C26 as stated: a forced launchProtocol(P) with scheduled=False, the
\* launcher returning a job id, falls back to scheduleProtocol exactly when
\* a prerequisite of P is still active, and launches P, which ends
\* LAUNCHED, when P has prerequisites none of which is active.
C26_AsStated ==
  \A p \in Live :
    \A interactive, inStreaming \in BOOLEAN :
      LET o == launchProtocolOp(Cur, p, FALSE, TRUE, interactive,
                                inStreaming, TRUE, FALSE, STATUS_FINISHED)
      IN IF ActivePrerequisite(p) THEN FellBack(o, p)
         ELSE LaunchedDirectly(o, p)

\* C26 amended: the call falls back to scheduleProtocol exactly when P has
\* prerequisites, active or not, and launches P, which ends LAUNCHED, when
\* P has none.
C26_FallsBackOnAnyPrerequisite ==
  \A p \in Live :
    \A interactive, inStreaming \in BOOLEAN :
      LET o == launchProtocolOp(Cur, p, FALSE, TRUE, interactive,
                                inStreaming, TRUE, FALSE, STATUS_FINISHED)
      IN IF prerequisites[p] # {} THEN FellBack(o, p)
         ELSE LaunchedDirectly(o, p)

\* launchProtocol(2) has scheduled protocol 2, whose only prerequisite 1 is
\* FINISHED.
C26_Witness ==
  /\ lastOp.op = "launchProtocol"
  /\ lastOp.protocols = {2}
  /\ lastOp.called = "schedule"
  /\ prerequisites[2] = {1}
  /\ status[1] = STATUS_FINISHED
  /\ localStore[1] = STATUS_FINISHED
  /\ status[2] = STATUS_SCHEDULED

\* C27: when the launcher returns no job id (or UNKNOWN_JOBID), the
\* protocol is FAILED in the project store when launchProtocol returns,
\* never LAUNCHED or RUNNING, with wait=True as with wait=False.
C27_FailedLaunchIsStored ==
  (/\ lastOp.op = "launchProtocol"
   /\ lastOp.called = "launch"
   /\ ~lastOp.jobOk)
    => \A p \in lastOp.protocols : mapper[p] = STATUS_FAILED

(***************************************************************************)
(* Claims on the levels of _getWorkflowFromProtocol.                       *)
(***************************************************************************)
\* The runs graph the last launchWorkflow call worked on, and the protocol
\* its map was computed from.
WalkedNodes == getRunsGraph(lastOp.before, FALSE).runsGraph.nodes

WalkedRoot == lastOp.map[1].id

\* The protocols reached from the start protocol.
WalkedReach == {WalkedRoot} \cup Descendants(WalkedNodes, WalkedRoot, MaxProt)

\* The protocols at the end of a path of exactly n edges from the start.
RECURSIVE AtDistance(_)
AtDistance(n) ==
  IF n = 0 THEN {WalkedRoot}
  ELSE UNION {getChilds(WalkedNodes, q) : q \in AtDistance(n - 1)}

\* The lengths of the paths from the start protocol to p.
PathLengths(p) == {n \in 0..MaxProt : p \in AtDistance(n)}

ShortestPath(p) ==
  CHOOSE n \in PathLengths(p) : \A k \in PathLengths(p) : n <= k

LongestPath(p) ==
  CHOOSE n \in PathLengths(p) : \A k \in PathLengths(p) : n >= k

\* C28 as stated: the level of each protocol of the map is its shortest
\* distance from the start protocol in the runs graph, the start protocol
\* having level 0.
C28_AsStated ==
  lastOp.op = "launchWorkflow"
    => \A i \in DOMAIN lastOp.map :
         lastOp.map[i].level = ShortestPath(lastOp.map[i].id)

\* C28 amended: the level of each protocol of the map is the length of the
\* longest path from the start protocol to it in the (acyclic) runs graph,
\* the start protocol having level 0.
C28_LevelIsLongestPath ==
  lastOp.op = "launchWorkflow"
    => /\ lastOp.map[1].level = 0
       /\ \A i \in DOMAIN lastOp.map :
            lastOp.map[i].level = LongestPath(lastOp.map[i].id)

\* A workflow in which a protocol one edge away from the start protocol got
\* level 2, over a path of two edges.
C28_Witness ==
  /\ lastOp.op = "launchWorkflow"
  /\ \E i \in DOMAIN lastOp.map :
       /\ lastOp.map[i].level = 2
       /\ ShortestPath(lastOp.map[i].id) = 1
       /\ LongestPath(lastOp.map[i].id) = 2

\* C29: on an acyclic runs graph _getWorkflowFromProtocol returns exactly
\* the protocols reachable from the start protocol, each once, and for
\* every edge A -> B of the runs graph between them level(B) >= level(A) + 1,
\* so the initial sleep time of A is smaller than that of B.
C29_LevelsFollowEdges ==
  lastOp.op = "launchWorkflow"
    => /\ mapKeys(lastOp.map) = WalkedReach
       /\ Len(lastOp.map) = Cardinality(WalkedReach)
       /\ \A A, B \in mapKeys(lastOp.map) :
            B \in getChilds(WalkedNodes, A)
              => /\ levelOf(lastOp.map, B) >= levelOf(lastOp.map, A) + 1
                 /\ levelOf(lastOp.map, A) * INITIAL_SLEEP_TIME
                      < levelOf(lastOp.map, B) * INITIAL_SLEEP_TIME

\* The workflow of the chain 1 -> 2 -> 3 was computed from protocol 1 for a
\* launch in RESUME mode: levels 0, 1 and 2.
C29_Witness ==
  /\ lastOp.op = "launchWorkflow"
  /\ lastOp.mode = MODE_RESUME
  /\ inputs = ChainInputs
  /\ lastOp.map = <<[id |-> 1, level |-> 0], [id |-> 2, level |-> 1],
                    [id |-> 3, level |-> 2]>>

(***************************************************************************)
(* Claims on the step executors: stop and worker slots.                    *)
(***************************************************************************)
\* C22: in the serial and in the thread-pool runSteps, once a
\* stepFinishedCallback has returned false no step is set RUNNING and no
\* stepStartedCallback or stepFinishedCallback fires any more; runSteps
\* does not return while a step is still running in a thread, and returns
\* once none is.
C22_StopAfterFalse ==
  /\ [][~doContinue
          => /\ \A i \in DOMAIN steps :
                  /\ nStarted'[i] = nStarted[i]
                  /\ nFinished'[i] = nFinished[i]
                  /\ isRunning(steps'[i]) => isRunning(steps[i])
             /\ \A i \in DOMAIN steps' \ DOMAIN steps :
                  /\ nStarted'[i] = 0
                  /\ nFinished'[i] = 0
                  /\ ~isRunning(steps'[i])]_vars
  /\ []((~doContinue /\ pc = "done") => threads = {})
  /\ (~doContinue /\ threads = {}) ~> (pc = "done")

\* The thread-pool runSteps has returned after a stepFinishedCallback
\* answered false: a step that ran has ended, another was never started.
C22_Witness ==
  /\ executor = "thread"
  /\ pc = "done"
  /\ ~doContinue
  /\ threads = {}
  /\ \E i, j \in DOMAIN steps :
       /\ isEnded(steps[i]) /\ nFinished[i] = 1
       /\ steps[j].status = STATUS_NEW /\ nStarted[j] = 0

\* The nodes booked in runningSteps, and the steps they are booked for.
BookedNodes == {runningSteps[k][1] : k \in DOMAIN runningSteps}

RunningNow == {i \in DOMAIN steps : isRunning(steps[i])}

\* C23: at the top and at the end of every pass of the loop of
\* ThreadStepExecutor.runSteps with N worker slots, every node 0..N-1 is
\* either once in freeNodes or the key of one runningSteps entry, never
\* both; every RUNNING step is the value of exactly one entry; so at most N
\* steps are RUNNING and no node is held by two running steps.
C23_NodesPartitioned ==
  (executor = "thread" /\ pc \in {"scan", "check"})
    => /\ Range(freeNodes) \cup BookedNodes = 0..(numberOfProcs - 1)
       /\ Range(freeNodes) \cap BookedNodes = {}
       /\ Len(freeNodes) + Len(runningSteps) = numberOfProcs
       /\ \A i \in RunningNow :
            Cardinality({k \in DOMAIN runningSteps :
                           runningSteps[k][2] = i}) = 1
       /\ Cardinality(RunningNow) <= numberOfProcs
       /\ \A k, l \in DOMAIN runningSteps :
            (k # l /\ runningSteps[k][2] \in RunningNow
                   /\ runningSteps[l][2] \in RunningNow)
              => runningSteps[k][1] # runningSteps[l][1]

\* Two worker slots, both booked by RUNNING steps at the top of a pass, a
\* third step waiting.
C23_Witness ==
  /\ executor = "thread"
  /\ pc = "scan"
  /\ numberOfProcs = 2
  /\ freeNodes = <<>>
  /\ Cardinality(RunningNow) = 2
  /\ BookedNodes = {0, 1}
  /\ \E i \in DOMAIN steps : steps[i].status = STATUS_NEW

(***************************************************************************)
(* Claims on the callbacks of runSteps.                                    *)
(***************************************************************************)
\* runSteps has left its loop and made its last stepsCheckCallback call.
AfterFinalCheck == pc \in {"join", "done"}

\* C37: the serial and the thread-pool runSteps leave their loop only
\* towards the last stepsCheckCallback call, return only after it, and no
\* step is started (set RUNNING, stepStartedCallback fired) after it.
C37_FinalCheckThenNoStart ==
  /\ [][(AfterFinalCheck' /\ ~AfterFinalCheck) => pc = "final"]_vars
  /\ [][AfterFinalCheck
          => /\ AfterFinalCheck'
             /\ steps' = steps \/ \E i \in DOMAIN steps :
                                    /\ isRunning(steps[i])
                                    /\ isEnded(steps'[i])
             /\ nStarted' = nStarted]_vars

\* The serial runSteps has returned with every step of the list FINISHED
\* and every stepFinishedCallback answering true.
C37_Witness ==
  /\ executor = "serial"
  /\ pc = "done"
  /\ doContinue
  /\ Len(steps) = MaxSteps
  /\ \A i \in DOMAIN steps : isFinished(steps[i]) /\ nFinished[i] = 1

\* C38: when ThreadStepExecutor.runSteps has returned and every
\* stepFinishedCallback answered true, stepFinishedCallback has fired
\* exactly once for every step that was started, whatever the interleaving
\* of the StepThreads with the main loop.
C38_FinishedFiredForEveryStart ==
  (executor = "thread" /\ pc = "done" /\ doContinue)
    => \A i \in DOMAIN steps : nStarted[i] > 0 => nFinished[i] = 1

\* The steps a stepsCheckCallback call appended to the list.
AddedSteps == {i \in DOMAIN steps : i > MaxSteps}

\* C39: when runSteps (serial or thread-pool) has returned with every
\* stepFinishedCallback answering true, no step appended by a
\* stepsCheckCallback call, the last one included, is left NEW with all its
\* prerequisites FINISHED.
C39_AddedStepsAreStarted ==
  (pc = "done" /\ doContinue)
    => \A i \in AddedSteps :
         ~(/\ steps[i].status = STATUS_NEW
           /\ \A j \in steps[i].prerequisites : isFinished(steps[j]))

(***************************************************************************)
(* Claims on the GPUs of running steps.                                    *)
(***************************************************************************)
\* The GPUs getGpuList() gives to the StepThread t.
GpusOf(t) == Range(getGpuList(gpuDict, t[1]))

\* C40: when the GPU list holds K >= N distinct ids, the lists that
\* getGpuList() gives to two steps RUNNING at the same time in a
\* ThreadStepExecutor never overlap, and the list a node gets is the one
\* the constructor gave it, which never changes.
C40_RunningStepsDisjointGpus ==
  /\ []((gpuBuilt /\ Len(gpuListArg) >= nThreads)
         => /\ \A t1, t2 \in threads :
                 (/\ t1 # t2
                  /\ isRunning(steps[t1[2]])
                  /\ isRunning(steps[t2[2]]))
                 => GpusOf(t1) \cap GpusOf(t2) = {}
            /\ gpuGot.thId >= 0
                 => gpuGot.gpus =
                      getGpuList(threadGpuDict(gpuListArg, nThreads),
                                 gpuGot.thId))
  /\ [][gpuBuilt => gpuDict' = gpuDict]_vars

\* Two steps are running in the two StepThreads of an executor built on
\* three GPUs; the thread of node 1 has just got its list.
C40_Witness ==
  /\ gpuBuilt
  /\ nThreads = 2
  /\ gpuListArg = <<0, 1, 2>>
  /\ Cardinality(threads) = 2
  /\ \A t \in threads : isRunning(steps[t[2]])
  /\ gpuGot = [thId |-> 1, gpus |-> <<1>>]

(***************************************************************************)
(* Claims on the update of a run.                                          *)
(***************************************************************************)
\* The step is a call op on the run.
ViewCall(op) == updCall'.op = op /\ updCall'.tick # updCall.tick

\* The process recorded for the run p is known, checked and gone.
DeadProcess(p, alive) ==
  /\ p.pid # 0
  /\ isActive(p)
  /\ ~isInteractive(p)
  /\ p.local
  /\ ~p.queue
  /\ ~alive

\* C33: checkPid(P) marks P FAILED if and only if P's pid is not 0, P is
\* active, not interactive, runs locally, does not use a queue and the
\* process with that pid is not alive; in every other case, pid 0 included,
\* the status and the message of P are unchanged.
C33_CheckPidMarksFailed ==
  [][ViewCall("checkPid")
     => IF DeadProcess(protObj, pidAlive)
        THEN /\ protObj'.status = STATUS_FAILED
             /\ protObj'.message = ProcessNotFound
        ELSE /\ protObj'.status = protObj.status
             /\ protObj'.message = protObj.message]_vars

\* checkPid has just marked a running run FAILED.
C33_Witness ==
  /\ updCall.op = "checkPid"
  /\ updCall.before.status = STATUS_RUNNING
  /\ DeadProcess(updCall.before, pidAlive)
  /\ protObj.status = STATUS_FAILED
  /\ protObj.message = ProcessNotFound

\* The step is a call that ran _updateProtocol on the run: a direct call, or
\* the one getRuns makes.
UpdateMade ==
  /\ updCall'.tick # updCall.tick
  /\ updCall'.op \in {"_updateProtocol", "getRuns"}
  /\ updCall'.ret # "none"

\* C31: when reading run.db fails, _updateProtocol retries after a sleep of
\* 0.5 s at most 3 times, 4 reads in all; the protocol is marked FAILED with
\* the error text, and stored, only when all 4 reads failed, and it is so
\* marked then; after a read that succeeded the protocol does not carry the
\* error text, and is FAILED only if run.db says so or checkPid found its
\* process gone.
C31_RetriesThenFailed ==
  [][UpdateMade
     => LET c == updCall'
        IN /\ c.reads <= MaxTries + 1
           /\ c.slept <= MaxTries * RetrySleepMs
           /\ c.reads >= 1 => c.slept >= (c.reads - 1) * RetrySleepMs
           /\ protObj'.message = ReadError
                => /\ c.reads = MaxTries + 1
                   /\ c.failing = 0..MaxTries
                   /\ ~c.copied
                   /\ protObj'.status = STATUS_FAILED
                   /\ sqlite' = protObj'
           /\ (c.reads = MaxTries + 1 /\ ~c.copied)
                => protObj'.message = ReadError
           /\ c.copied
                => /\ protObj'.message # ReadError
                   /\ protObj'.status = STATUS_FAILED
                        => \/ runDb.status = STATUS_FAILED
                           \/ /\ c.checkPid
                              /\ c.reads = 1
                              /\ protObj'.message = ProcessNotFound]_vars

\* All four reads of a running run failed, three sleeps between them: the
\* run is stored FAILED with the error text.
C31_Witness ==
  /\ updCall.op = "_updateProtocol"
  /\ updCall.reads = MaxTries + 1
  /\ updCall.slept = MaxTries * RetrySleepMs
  /\ ~updCall.copied
  /\ updCall.before.status = STATUS_RUNNING
  /\ sqlite.status = STATUS_FAILED
  /\ sqlite.message = ReadError

\* C32: _updateProtocol returns NOT_UPDATED_ERROR whenever the call ends
\* with the protocol marked FAILED after the retries are exhausted, returns
\* PROTOCOL_UPDATED only when the protocol was rehydrated from run.db, and
\* returns NOT_UPDATED_READ_ONLY and NOT_UPDATED_UNNECESSARY with the
\* protocol and the store unmodified.
C32_ReturnCodes ==
  [][ViewCall("_updateProtocol")
     => LET c == updCall'
        IN /\ protObj'.message = ReadError => c.ret = NOT_UPDATED_ERROR
           /\ c.ret = PROTOCOL_UPDATED => c.copied
           /\ c.ret \in {NOT_UPDATED_READ_ONLY, NOT_UPDATED_UNNECESSARY}
                => protObj' = protObj /\ sqlite' = sqlite]_vars

\* C34: when the process recorded (pid not 0) for an active, non-interactive,
\* local, non-queue, non-child protocol has died, the next
\* getRuns(refresh=True, checkPids=True) marks the protocol FAILED in
\* project.sqlite, whether or not run.db was modified since the last update.
\* Stated for a writable project whose run.db is readable and holds the
\* status and the pid the project holds.
C34_DeadProcessFailsRun ==
  [][(/\ ViewCall("getRuns")
      /\ updCall'.refresh
      /\ updCall'.checkPid
      /\ updCall'.failing = {}
      /\ ~asReadOnly
      /\ DeadProcess(sqlite, pidAlive)
      /\ ~sqlite.child
      /\ runDb.status = sqlite.status
      /\ runDb.pid = sqlite.pid)
     => sqlite'.status = STATUS_FAILED]_vars

(***************************************************************************)
(* Claims on the runs graph of a list of runs.                             *)
(***************************************************************************)
\* The object is the run a or an output of the run a.
ProducedBy(o, a) == o.kind \in {"run", "out"} /\ o.run = a

\* Some valued input pointer of b holds a, an output of a, or an object
\* whose parent is a or an output of a.
PointsAt(b, a) ==
  \E pt \in inputPointers(ins[b]) :
    /\ hasValue(pt)
    /\ \/ ProducedBy(pt.to, a)
       \/ ProducedBy(getParent(pt.to, parentOf), a)

\* Some valued input pointer of b holds a or an output of a, or holds an
\* object that is neither a run of the list other than b nor an output of
\* one, and whose parent is a or an output of a.
PointsFirstAt(b, a) ==
  \E pt \in inputPointers(ins[b]) :
    /\ hasValue(pt)
    /\ \/ ProducedBy(pt.to, a)
       \/ /\ ~\E c \in Range(argRuns) \ {b} : ProducedBy(pt.to, c)
          /\ ProducedBy(getParent(pt.to, parentOf), a)

KeyOf(pt) == IF pt.to.kind = "run" THEN pt.ext ELSE pt.to.key

\* The runs graph of the project copied from.
CopyGraph == getGraphFromRuns(SortedSeq(GRuns), ins, parentOf)

\* C36: after copyProtocol(list), for every edge S -> C of the runs graph
\* with S and C in the list, each input of the clone of C that corresponds
\* to an input of C pointing at S or at an output of S (a pointer, each
\* matching element of a list, a scalar holding a pointer) points at the
\* clone of S with the same output key as extended path; the inputs pointing
\* at runs outside the list still point at the originals, the clones have
\* no outputs, and the originals are unchanged.
C36_CopyRewiresInputs ==
  /\ [](clones.made
         => \A c \in Range(argRuns) :
              /\ clones.of[c].outs = {}
              /\ \A i \in DOMAIN ins[c] :
                   \A j \in DOMAIN ins[c][i].ptrs :
                     LET pt == ins[c][i].ptrs[j]
                         cp == clones.of[c].ins[i].ptrs[j]
                     IN /\ (/\ pt.to.run \in Range(argRuns)
                            /\ <<pt.to.run, c>> \in CopyGraph.edges)
                          => cp = Pointer(RunObj(cloneId(pt.to.run)),
                                          KeyOf(pt))
                        /\ pt.to.run \notin Range(argRuns) => cp = pt)
  /\ [][ins' = ins]_vars
====
